---- MODULE Spec2Model ----
(***************************************************************************)
(* go-sql-store: the retrying transaction executor (internal/database),    *)
(* the error classifier, the inventory locking layer and order assembly    *)
(* (internal/store), driven against a PostgreSQL-like store with row locks *)
(* and snapshot transactions.                                              *)
(***************************************************************************)
EXTENDS Integers, Sequences, FiniteSets, TLC

(***************************************************************************)
(* Bounds of the model.                                                    *)
(***************************************************************************)
NumCallers == 2          \* concurrent callers of the store
MaxRetriesBound == 2     \* largest TxOptions.MaxRetries a generic caller passes
MaxQty == 2              \* largest quantity of a request line
InitStock == 2           \* stock_quantity of every product at the start
MaxCalls == 2            \* calls of UpdateStockOptimistic one caller makes in a row
MaxTime == 3             \* latest created_at of an orders row, in ticks of the store's clock
MaxRows == 3             \* orders rows that exist before a listing starts
MaxInserts == 1          \* orders rows committed while a listing runs
MaxLimit == 2            \* largest page size asked of ListOrdersCursor
MaxPages == 4            \* calls of ListOrdersCursor one caller makes in a row

(***************************************************************************)
(* Program constants.                                                      *)
(***************************************************************************)
Millisecond == 1000000   \* time.Millisecond, in nanoseconds
BaseBackoff == 50 * Millisecond
CreateOrderMaxRetries == 3
InitVersion == 1         \* products.version of a new row

Callers == 1..NumCallers
Products == {"A", "B"}
MissingProduct == "Z"    \* an id with no products row
Users == {"u1"}
MissingUser == "u0"      \* an id with no users row

Price(i) == IF i = "A" THEN 100 ELSE 200

\* stock_quantity of each product when the calls start
StartStock(i) == IF i = "A" THEN InitStock ELSE 1

(***************************************************************************)
(* Errors.  A Go error is modelled as its chain: the sequence of layers    *)
(* from the outermost fmt.Errorf("...: %w") wrapper to the innermost       *)
(* error; nil is the empty chain.                                          *)
(***************************************************************************)
Nil == << >>

PqCodes == {"40001", "40P01", "55P03", "23505", "23503", "23502", "23514", "XX000"}

Sentinels == {"ErrUserNotFound", "ErrProductNotFound", "ErrOrderNotFound",
              "ErrInsufficientStock", "ErrOptimisticLockFailed", "ErrLockTimeout"}

OtherErrors == {"sql.ErrNoRows", "sql.ErrTxDone", "context.Canceled", "driver.ErrBadConn"}

BaseErrors == PqCodes \cup Sentinels \cup OtherErrors

Base(layer) == << layer >>

\* the wrapping with a fault: %v in place of %w, the error becomes text
WrapFormatted(marker, e) == << marker, "text" >>

\* fmt.Errorf(marker + ": %w", e)
Wrap(marker, e) == << marker >> \o e

\* the innermost error of a chain
Innermost(e) == e[Len(e)]

\* errors.As(err, &pqErr): the first layer of the chain that is a *pq.Error
RECURSIVE AsPq(_)
AsPq(e) ==
    IF e = Nil THEN "none"
    ELSE IF Head(e) \in PqCodes THEN Head(e)
    ELSE AsPq(Tail(e))

\* errors.Is(err, target)
RECURSIVE ErrorsIs(_, _)
ErrorsIs(e, target) ==
    IF e = Nil THEN FALSE
    ELSE IF Head(e) = target THEN TRUE
    ELSE ErrorsIs(Tail(e), target)

ErrorClassPermanent == "Permanent"
ErrorClassTransient == "Transient"
ErrorClassDeadlock == "Deadlock"
ErrorClassSerialization == "Serialization"

\* ClassifyError with a fault: an error it does not recognize is retried
ClassifyErrorFailsOpen(e) ==
    IF e = Nil THEN ErrorClassPermanent
    ELSE LET code == AsPq(e) IN
         CASE code = "40001" -> ErrorClassSerialization
           [] code = "40P01" -> ErrorClassDeadlock
           [] code \in {"23505", "23503", "23502", "23514"} -> ErrorClassPermanent
           [] OTHER -> ErrorClassTransient

\* ClassifyError with a fault: a type assertion on the error itself in place of
\* errors.As, so that a wrapped *pq.Error is not recognized
ClassifyErrorUnwrapped(e) ==
    IF e = Nil THEN ErrorClassPermanent
    ELSE CASE Head(e) = "40001" -> ErrorClassSerialization
           [] Head(e) = "40P01" -> ErrorClassDeadlock
           [] Head(e) = "55P03" -> ErrorClassTransient
           [] OTHER -> ErrorClassPermanent

ClassifyError(e) ==
    IF e = Nil THEN ErrorClassPermanent
    ELSE LET code == AsPq(e) IN
         CASE code = "40001" -> ErrorClassSerialization
           [] code = "40P01" -> ErrorClassDeadlock
           [] code = "55P03" -> ErrorClassTransient
           [] code \in {"23505", "23503", "23502", "23514"} -> ErrorClassPermanent
           [] OTHER -> IF ErrorsIs(e, "sql.ErrNoRows")
                       THEN ErrorClassPermanent
                       ELSE ErrorClassPermanent

IsRetryable(e) ==
    LET class == ClassifyError(e) IN
    \/ class = ErrorClassTransient
    \/ class = ErrorClassDeadlock
    \/ class = ErrorClassSerialization

(***************************************************************************)
(* State.                                                                  *)
(***************************************************************************)
VARIABLES
    \* the store (committed state and row locks)
    stock,          \* products.stock_quantity
    version,        \* products.version
    lockHolder,     \* the open transactions holding each product row's lock
    orders,         \* committed orders rows
    orderItems,     \* committed order_items rows
    \* each caller's call
    kind,           \* which operation the caller runs
    req,            \* the caller's arguments
    opts,           \* TxOptions.MaxRetries of the call
    cancelled,      \* ctx.Done() is closed
    pc,             \* position of the caller in its code
    attempt,        \* WithRetry: attempt
    backoff,        \* WithRetry: backoff
    sleepDuration,  \* WithRetry: sleepDuration of the sleep in progress
    lastErr,        \* WithRetry: lastErr
    err,            \* the error the unit of work or the commit returned
    result,         \* the error the call returned, once pc = "done"
    tx,             \* the caller's open transaction, as the store sees it
    co,             \* locals of the unit of work
    \* history (not program state): what happened during the call
    fnCalls,        \* invocations of the unit of work
    began,          \* transactions begun
    commits,        \* transactions committed
    hist,           \* of a call with any unit of work, the failure that ended each
                    \* attempt: where it happened, and the innermost error
    cancelAt        \* where the call was when ctx was cancelled

storeVars == << stock, version, lockHolder, orders, orderItems >>
inputVars == << kind, req, opts >>
retryVars == << attempt, backoff, sleepDuration, lastErr >>
histVars == << fnCalls, began, commits, hist, cancelAt >>
vars == << stock, version, lockHolder, orders, orderItems, kind, req, opts,
           cancelled, pc, attempt, backoff, sleepDuration, lastErr, err, result,
           tx, co, fnCalls, began, commits, hist, cancelAt >>

(***************************************************************************)
(* The store: transactions, row locks, commit and rollback.                *)
(***************************************************************************)
NoDecr == [i \in Products |-> 0]

\* orders rows that exist before the calls start, for the callers of
\* GetNextPendingOrder: two pending ones, the k-th created k-th, and one created
\* before them that is confirmed already
SeedOrders ==
    {[id |-> << 0, k >>, user |-> "u1", status |-> "pending", total |-> Price("A")] :
        k \in 1..2}
        \cup {[id |-> << 0, 0 >>, user |-> "u1", status |-> "confirmed", total |-> Price("A")]}

\* the name under which the lock of a seeded orders row is kept
SeedKeys == << "o0", "o1", "o2" >>
RowKey(o) == SeedKeys[o.id[2] + 1]

\* the rows a transaction can lock: products rows and the orders rows above
LockableRows == Products \cup {RowKey(o) : o \in SeedOrders}

\* the callers that run WithTransaction
WTKinds == {"reserve", "worker", "decrement"}

\* a transaction handle: closed, or open with its uncommitted writes
ClosedTx == [open |-> FALSE, snap |-> FALSE, stale |-> {}, decr |-> NoDecr,
             order |-> << >>, lines |-> << >>]
OpenTx == [ClosedTx EXCEPT !.open = TRUE]

NoLocals == [idx |-> 0, productPrices |-> << >>, totalAmount |-> 0, stockQuantity |-> 0,
             order |-> << >>, cursor |-> << >>]

\* row locks after caller c's transaction ended
Released(c) == [i \in LockableRows |-> lockHolder[i] \ {c}]

\* products whose row the transaction of c updated
Updated(c) == {i \in Products : tx[c].decr[i] # 0}

\* the other open transactions: a row that c's commit changed is, for a
\* transaction whose snapshot is older, a row updated concurrently
StaleAfterCommit(c) ==
    [d \in Callers |->
        IF d # c /\ tx[d].open /\ tx[d].snap
        THEN [tx[d] EXCEPT !.stale = @ \cup Updated(c)]
        ELSE IF d = c THEN ClosedTx ELSE tx[d]]

\* tx.Rollback() with a fault: the stock updates of the transaction are kept
StoreRollbackKeepsStock(c) ==
    /\ stock' = [i \in Products |-> stock[i] - tx[c].decr[i]]
    /\ tx' = [tx EXCEPT ![c] = ClosedTx]
    /\ lockHolder' = Released(c)
    /\ UNCHANGED << version, orders, orderItems >>

\* tx.Rollback() with a fault: it is not called, the transaction stays open
StoreRollbackSkipped(c) ==
    UNCHANGED << tx, lockHolder, stock, version, orders, orderItems >>

\* tx.Rollback(): the uncommitted writes are dropped, the locks released
StoreRollback(c) ==
    /\ tx' = [tx EXCEPT ![c] = ClosedTx]
    /\ lockHolder' = Released(c)
    /\ UNCHANGED << stock, version, orders, orderItems >>

\* tx.Commit() succeeding: every write of the transaction becomes visible at once
StoreCommit(c) ==
    /\ stock' = [i \in Products |-> stock[i] - tx[c].decr[i]]
    /\ orders' = orders \cup {tx[c].order[k] : k \in DOMAIN tx[c].order}
    /\ orderItems' = orderItems \cup {tx[c].lines[k] : k \in DOMAIN tx[c].lines}
    /\ tx' = StaleAfterCommit(c)
    /\ lockHolder' = Released(c)
    /\ UNCHANGED version

(***************************************************************************)
(* WithRetry (internal/database/tx.go).                                    *)
(***************************************************************************)
\* case <-ctx.Done() with a fault: the context is never looked at
CtxNeverDone(c) == FALSE

\* case <-ctx.Done():
CtxDone(c) == cancelled[c]

\* ctx.Err()
CtxErr == Base("context.Canceled")

\* rand.Int63n(int64(backoff / 4)): the least and the greatest value
Jitters(b) == {0, (b \div 4) - 1}

\* the growth with a fault: linear in place of exponential
NextBackoffLinear(b) == b + BaseBackoff

\* backoff *= 2
NextBackoff(b) == b * 2

\* attempt == opts.MaxRetries with a fault: off by one
LastAttemptOffByOne(c) == attempt[c] + 1 = opts[c]

\* attempt == opts.MaxRetries
LastAttempt(c) == attempt[c] = opts[c]

\* the first statement of the unit of work of caller c
FnEntry(c) == CASE kind[c] = "generic" -> "fn"
                [] kind[c] = "order" -> "co_user"
                [] OTHER -> "done"

\* errors a store call may return for reasons outside the program
BeginFaults == {Base("driver.ErrBadConn")}
RollbackFaults == {Base("sql.ErrTxDone")}
GenericErrors == {Base(b) : b \in BaseErrors}
                     \cup {Wrap("unit of work", Base(b)) : b \in {"40P01", "55P03", "23505", "sql.ErrNoRows"}}
CommitFaults(c) == IF kind[c] = "generic" THEN GenericErrors
                   ELSE {Base("40001"), Base("driver.ErrBadConn")}

Return(c, e) ==
    /\ pc' = [pc EXCEPT ![c] = "done"]
    /\ result' = [result EXCEPT ![c] = e]

\* the loop head with a fault: no select on ctx.Done() before the attempt
LoopHeadNoCtx(c) ==
    /\ pc[c] = "loop"
    /\ IF attempt[c] > opts[c] THEN Return(c, lastErr[c])
       ELSE /\ pc' = [pc EXCEPT ![c] = "begin"]
            /\ UNCHANGED result
    /\ UNCHANGED << storeVars, inputVars, retryVars, histVars, cancelled, err, tx, co >>

\* for attempt := 0; attempt <= opts.MaxRetries; ... { select { case <-ctx.Done(): ... } }
LoopHead(c) ==
    /\ pc[c] = "loop"
    /\ IF attempt[c] > opts[c] THEN Return(c, lastErr[c])
       ELSE IF CtxDone(c) THEN Return(c, CtxErr)
       ELSE /\ pc' = [pc EXCEPT ![c] = "begin"]
            /\ UNCHANGED result
    /\ UNCHANGED << storeVars, inputVars, retryVars, histVars, cancelled, err, tx, co >>

\* tx, err := db.BeginTx(ctx, ...)
BeginTx(c) ==
    /\ pc[c] = "begin"
    /\ \/ /\ ~CtxDone(c)
          /\ tx' = [tx EXCEPT ![c] = OpenTx]
          /\ began' = [began EXCEPT ![c] = @ + 1]
          /\ err' = [err EXCEPT ![c] = Nil]
          /\ pc' = [pc EXCEPT ![c] = FnEntry(c)]
          /\ UNCHANGED result
       \/ /\ \E e \in (IF CtxDone(c) THEN {CtxErr} ELSE BeginFaults) :
                /\ err' = [err EXCEPT ![c] = e]
                /\ Return(c, Wrap("begin transaction", e))
          /\ UNCHANGED << tx, began >>
    /\ UNCHANGED << storeVars, inputVars, retryVars, cancelled, co,
                    fnCalls, commits, hist, cancelAt >>

\* the policy with a fault: an error of tx.Commit() is returned without being
\* classified, whatever its class
HandleFailureFnOnly(c, e, where) ==
    /\ hist' = [hist EXCEPT ![c] = IF kind[c] = "generic"
                                   THEN Append(@, << where, Innermost(e) >>) ELSE @]
    /\ IF where = "commit"
       THEN /\ Return(c, Wrap("commit transaction", e))
            /\ UNCHANGED << lastErr, sleepDuration >>
       ELSE IF ClassifyError(e) = ErrorClassPermanent
       THEN /\ Return(c, e)
            /\ UNCHANGED << lastErr, sleepDuration >>
       ELSE IF LastAttempt(c)
       THEN /\ Return(c, Wrap("max retries exceeded", e))
            /\ UNCHANGED << lastErr, sleepDuration >>
       ELSE /\ lastErr' = [lastErr EXCEPT ![c] = e]
            /\ \E jitter \in Jitters(backoff[c]) :
                  sleepDuration' = [sleepDuration EXCEPT ![c] = backoff[c] + jitter]
            /\ pc' = [pc EXCEPT ![c] = "sleep"]
            /\ UNCHANGED result

\* the policy applied to the error e of an attempt whose transaction is closed:
\* where is "fn" for an error of the unit of work, "commit" for one of tx.Commit()
HandleFailure(c, e, where) ==
    LET errClass == ClassifyError(e) IN
    /\ hist' = [hist EXCEPT ![c] = IF kind[c] = "generic"
                                   THEN Append(@, << where, Innermost(e) >>) ELSE @]
    /\ IF errClass = ErrorClassPermanent
       THEN /\ Return(c, IF where = "commit" THEN Wrap("commit transaction", e) ELSE e)
            /\ UNCHANGED << lastErr, sleepDuration >>
       ELSE IF LastAttempt(c)
       THEN /\ Return(c, Wrap(IF where = "commit" THEN "max retries exceeded on commit"
                                                  ELSE "max retries exceeded", e))
            /\ UNCHANGED << lastErr, sleepDuration >>
       ELSE /\ lastErr' = [lastErr EXCEPT ![c] = e]
            /\ \E jitter \in Jitters(backoff[c]) :
                  sleepDuration' = [sleepDuration EXCEPT ![c] = backoff[c] + jitter]
            /\ pc' = [pc EXCEPT ![c] = "sleep"]
            /\ UNCHANGED result

\* the error path with a fault: an error of tx.Rollback() goes through the
\* retry policy like an error of the unit of work
FnFailedRetriesRollbackError(c) ==
    /\ pc[c] = "rollback"
    /\ kind[c] \notin WTKinds
    /\ StoreRollback(c)
    /\ \/ HandleFailure(c, err[c], "fn")
       \/ \E rbErr \in RollbackFaults :
             HandleFailure(c, Wrap("rollback failed", err[c]), "fn")
    /\ co' = [co EXCEPT ![c] = NoLocals]
    /\ UNCHANGED << inputVars, attempt, backoff, cancelled, err,
                    fnCalls, began, commits, cancelAt >>

\* the unit of work returned err # nil: tx.Rollback(), then the retry policy
FnFailed(c) ==
    /\ pc[c] = "rollback"
    /\ kind[c] \notin WTKinds
    /\ StoreRollback(c)
    /\ \/ HandleFailure(c, err[c], "fn")
       \/ /\ \E rbErr \in RollbackFaults :
                Return(c, Wrap("rollback failed", err[c]))
          /\ UNCHANGED << lastErr, sleepDuration, hist >>
    /\ co' = [co EXCEPT ![c] = NoLocals]
    /\ UNCHANGED << inputVars, attempt, backoff, cancelled, err,
                    fnCalls, began, commits, cancelAt >>

\* the unit of work returned nil: tx.Commit(), then the retry policy on its error
Commit(c) ==
    /\ pc[c] = "commit"
    /\ kind[c] \notin WTKinds
    /\ \/ /\ ~CtxDone(c)
          /\ StoreCommit(c)
          /\ commits' = [commits EXCEPT ![c] = @ + 1]
          /\ Return(c, Nil)
          /\ UNCHANGED << lastErr, sleepDuration, hist, err >>
       \/ /\ StoreRollback(c)
          /\ \E e \in (IF CtxDone(c) THEN {CtxErr} ELSE CommitFaults(c)) :
                /\ err' = [err EXCEPT ![c] = e]
                /\ HandleFailure(c, e, "commit")
          /\ UNCHANGED commits
    /\ co' = [co EXCEPT ![c] = NoLocals]
    /\ UNCHANGED << inputVars, attempt, backoff, cancelled, fnCalls, began, cancelAt >>

\* select { case <-time.After(sleepDuration): case <-ctx.Done(): return ctx.Err() }
Sleep(c) ==
    /\ pc[c] = "sleep"
    /\ \/ /\ backoff' = [backoff EXCEPT ![c] = NextBackoff(@)]
          /\ attempt' = [attempt EXCEPT ![c] = @ + 1]
          /\ pc' = [pc EXCEPT ![c] = "loop"]
          /\ UNCHANGED result
       \/ /\ CtxDone(c)
          /\ Return(c, CtxErr)
          /\ UNCHANGED << backoff, attempt >>
    /\ sleepDuration' = [sleepDuration EXCEPT ![c] = 0]
    /\ UNCHANGED << storeVars, inputVars, lastErr, histVars, cancelled, err, tx, co >>

\* the caller's context is cancelled (or its deadline passes) while the call
\* runs; the callers of CreateOrder and of WithTransaction pass
\* context.Background(), as the tests do
Cancel(c) ==
    /\ kind[c] = "generic"
    /\ pc[c] # "done"
    /\ ~cancelled[c]
    /\ cancelled' = [cancelled EXCEPT ![c] = TRUE]
    /\ cancelAt' = [cancelAt EXCEPT ![c] = << attempt[c], pc[c] >>]
    /\ UNCHANGED << storeVars, inputVars, retryVars, pc, err, result, tx, co,
                    fnCalls, began, commits, hist >>

(***************************************************************************)
(* A unit of work that is any function: it returns nil or some error.      *)
(***************************************************************************)
Fn(c) ==
    /\ pc[c] = "fn"
    /\ fnCalls' = [fnCalls EXCEPT ![c] = @ + 1]
    /\ \E e \in {Nil} \cup GenericErrors :
          /\ err' = [err EXCEPT ![c] = e]
          /\ pc' = [pc EXCEPT ![c] = IF e = Nil THEN "commit" ELSE "rollback"]
    /\ UNCHANGED << storeVars, inputVars, retryVars, cancelled, result, tx, co,
                    began, commits, hist, cancelAt >>

(***************************************************************************)
(* Specification of WithRetry alone: one caller, any unit of work, any     *)
(* MaxRetries.                                                             *)
(***************************************************************************)
InitCommon ==
    /\ stock = [i \in Products |-> StartStock(i)]
    /\ version = [i \in Products |-> InitVersion]
    /\ lockHolder = [i \in LockableRows |-> {}]
    /\ orderItems = {}
    /\ cancelled = [c \in Callers |-> FALSE]
    /\ attempt = [c \in Callers |-> 0]
    /\ backoff = [c \in Callers |-> BaseBackoff]
    /\ sleepDuration = [c \in Callers |-> 0]
    /\ lastErr = [c \in Callers |-> Nil]
    /\ err = [c \in Callers |-> Nil]
    /\ result = [c \in Callers |-> Nil]
    /\ tx = [c \in Callers |-> ClosedTx]
    /\ co = [c \in Callers |-> NoLocals]
    /\ fnCalls = [c \in Callers |-> 0]
    /\ began = [c \in Callers |-> 0]
    /\ commits = [c \in Callers |-> 0]
    /\ hist = [c \in Callers |-> << >>]
    /\ cancelAt = [c \in Callers |-> << >>]

NoRequest == [user |-> MissingUser, items |-> << >>, nowait |-> FALSE]

InitRetry ==
    /\ InitCommon
    /\ orders = {}
    /\ kind = [c \in Callers |-> IF c = 1 THEN "generic" ELSE "none"]
    /\ req = [c \in Callers |-> NoRequest]
    /\ \E m \in -1..MaxRetriesBound : opts = [c \in Callers |-> m]
    /\ pc = [c \in Callers |-> IF c = 1 THEN "loop" ELSE "done"]

NextRetry ==
    \E c \in Callers :
        \/ LoopHead(c)
        \/ BeginTx(c)
        \/ Fn(c)
        \/ FnFailed(c)
        \/ Commit(c)
        \/ Sleep(c)
        \/ Cancel(c)

SpecRetry == InitRetry /\ [][NextRetry]_vars

\* a step of the call itself: db.BeginTx, fn, tx.Rollback, tx.Commit and
\* time.After each return
RetryStep(c) ==
    LoopHead(c) \/ BeginTx(c) \/ Fn(c) \/ FnFailed(c) \/ Commit(c) \/ Sleep(c)

\* WithRetry alone, when every store operation and the unit of work return and
\* the timer of every sleep fires; the context may be cancelled or not
SpecRetryFair == SpecRetry /\ \A c \in Callers : WF_vars(RetryStep(c))

(***************************************************************************)
(* CreateOrder (internal/store/orders.go): the unit of work it hands to    *)
(* WithRetry, one action per statement sent to the store.  The transaction *)
(* is SERIALIZABLE: its snapshot is taken by its first statement, and      *)
(* locking a row that a transaction committed after the snapshot changed   *)
(* fails with 40001.                                                       *)
(***************************************************************************)
Line(i, q) == [product |-> i, quantity |-> q]

\* the product with a fault: it is rounded down to a multiple of 200
MulRounded(price, quantity) == ((price * quantity) \div 200) * 200

\* price.Mul(decimal.NewFromInt(int64(item.Quantity))): exact decimal arithmetic
Mul(price, quantity) == price * quantity

\* the read with a fault: the quantity the product started with (a copy read
\* before the row was locked), not the row's current quantity
VisibleCached(c, i) == StartStock(i)

\* the stock_quantity the transaction of c reads: its own writes included
Visible(c, i) == stock[i] - tx[c].decr[i]

\* WHERE id = $2 AND stock_quantity >= $1
StockGuard(c, i, q) == Visible(c, i) >= q

\* stock_quantity INT NOT NULL DEFAULT 0 CHECK (stock_quantity >= 0)
StockCheck(newStock) == newStock >= 0

\* the stock check with a fault: it is left out
InsufficientNever(stockQuantity, quantity) == FALSE

\* if stockQuantity < item.Quantity { return ErrInsufficientStock }
Insufficient(stockQuantity, quantity) == stockQuantity < quantity

\* the return with a fault: the error is wrapped on its way out
FnReturnsWrapped(c, e) ==
    /\ err' = [err EXCEPT ![c] = IF e = Nil THEN Nil ELSE Wrap("create order", e)]
    /\ pc' = [pc EXCEPT ![c] = IF e = Nil THEN "commit" ELSE "rollback"]

\* the unit of work returns e
FnReturns(c, e) ==
    /\ err' = [err EXCEPT ![c] = e]
    /\ pc' = [pc EXCEPT ![c] = IF e = Nil THEN "commit" ELSE "rollback"]

Item(c) == req[c].items[co[c].idx]

\* the loop over req.Items with a fault: it ends after its first line
NextLineFirstOnly(c, again, after) == after

\* the statement after the last line of a loop over req.Items, or the next line
NextLine(c, again, after) ==
    IF co[c].idx < Len(req[c].items) THEN again ELSE after

\* SELECT EXISTS(SELECT 1 FROM users WHERE id = $1)
CheckUser(c) ==
    /\ pc[c] = "co_user"
    /\ fnCalls' = [fnCalls EXCEPT ![c] = @ + 1]
    /\ tx' = [tx EXCEPT ![c].snap = TRUE, ![c].stale = {}]
    /\ IF req[c].user \notin Users
       THEN /\ FnReturns(c, Base("ErrUserNotFound"))
            /\ UNCHANGED co
       ELSE /\ co' = [co EXCEPT ![c] = [NoLocals EXCEPT !.idx = 1]]
            /\ pc' = [pc EXCEPT ![c] = IF req[c].items = << >> THEN "co_insert_order"
                                                             ELSE "co_lock"]
            /\ UNCHANGED err
    /\ UNCHANGED << storeVars, inputVars, retryVars, cancelled, result,
                    began, commits, hist, cancelAt >>

\* the locking read with a fault: FOR UPDATE without NOWAIT, the statement
\* waits until no other transaction holds the row
LockProductWaits(c) ==
    LET i == Item(c).product
        q == Item(c).quantity IN
    /\ pc[c] = "co_lock"
    /\ IF i \notin Products
       THEN /\ FnReturns(c, Base("ErrProductNotFound"))
            /\ UNCHANGED << lockHolder, co >>
       ELSE /\ lockHolder[i] \ {c} = {}
            /\ IF i \in tx[c].stale
               THEN /\ FnReturns(c, Wrap("lock product", Base("40001")))
                    /\ UNCHANGED << lockHolder, co >>
               ELSE /\ lockHolder' = [lockHolder EXCEPT ![i] = @ \cup {c}]
                    /\ IF Insufficient(Visible(c, i), q)
                       THEN /\ FnReturns(c, Base("ErrInsufficientStock"))
                            /\ co' = [co EXCEPT ![c].stockQuantity = Visible(c, i)]
                       ELSE /\ co' = [co EXCEPT
                                      ![c].stockQuantity = Visible(c, i),
                                      ![c].productPrices = (i :> Price(i)) @@ @,
                                      ![c].totalAmount = @ + Mul(Price(i), q),
                                      ![c].idx = IF @ < Len(req[c].items) THEN @ + 1 ELSE 1]
                            /\ pc' = [pc EXCEPT ![c] = NextLine(c, "co_lock", "co_insert_order")]
                            /\ UNCHANGED err
    /\ UNCHANGED << stock, version, orders, orderItems, inputVars, retryVars,
                    cancelled, result, tx, histVars >>

\* SELECT id, price, stock_quantity FROM products WHERE id = $1 FOR UPDATE NOWAIT
\* and the stock check on the row read
LockProduct(c) ==
    LET i == Item(c).product
        q == Item(c).quantity IN
    /\ pc[c] = "co_lock"
    /\ IF i \notin Products
       THEN /\ FnReturns(c, Base("ErrProductNotFound"))
            /\ UNCHANGED << lockHolder, co >>
       ELSE IF lockHolder[i] \ {c} # {}
       THEN /\ FnReturns(c, Wrap("lock product", Base("55P03")))
            /\ UNCHANGED << lockHolder, co >>
       ELSE IF i \in tx[c].stale
       THEN /\ FnReturns(c, Wrap("lock product", Base("40001")))
            /\ UNCHANGED << lockHolder, co >>
       ELSE /\ lockHolder' = [lockHolder EXCEPT ![i] = @ \cup {c}]
            /\ IF Insufficient(Visible(c, i), q)
               THEN /\ FnReturns(c, Base("ErrInsufficientStock"))
                    /\ co' = [co EXCEPT ![c].stockQuantity = Visible(c, i)]
               ELSE /\ co' = [co EXCEPT
                              ![c].stockQuantity = Visible(c, i),
                              ![c].productPrices = (i :> Price(i)) @@ @,
                              ![c].totalAmount = @ + Mul(Price(i), q),
                              ![c].idx = IF @ < Len(req[c].items) THEN @ + 1 ELSE 1]
                    /\ pc' = [pc EXCEPT ![c] = NextLine(c, "co_lock", "co_insert_order")]
                    /\ UNCHANGED err
    /\ UNCHANGED << stock, version, orders, orderItems, inputVars, retryVars,
                    cancelled, result, tx, histVars >>

\* INSERT INTO orders (...) VALUES ($1, $2, 'pending', $4, ...) RETURNING id
InsertOrder(c) ==
    LET row == [id |-> << c, attempt[c] >>, user |-> req[c].user,
                status |-> "pending", total |-> co[c].totalAmount] IN
    /\ pc[c] = "co_insert_order"
    /\ tx' = [tx EXCEPT ![c].order = << row >>]
    /\ co' = [co EXCEPT ![c].idx = 1]
    /\ pc' = [pc EXCEPT ![c] = IF req[c].items = << >> THEN "co_fetch"
                                                     ELSE "co_insert_item"]
    /\ UNCHANGED << storeVars, inputVars, retryVars, cancelled, err, result, histVars >>

\* the insert with a fault: a table without the CHECK and UNIQUE constraints
InsertOrderItemUnconstrained(c) ==
    LET i == Item(c).product
        q == Item(c).quantity
        unitPrice == co[c].productPrices[i]
        row == [order |-> tx[c].order[1].id, product |-> i, quantity |-> q,
                unitPrice |-> unitPrice, subtotal |-> Mul(unitPrice, q)] IN
    /\ pc[c] = "co_insert_item"
    /\ tx' = [tx EXCEPT ![c].lines = Append(@, row)]
    /\ co' = [co EXCEPT ![c].idx = IF @ < Len(req[c].items) THEN @ + 1 ELSE 1]
    /\ pc' = [pc EXCEPT ![c] = NextLine(c, "co_insert_item", "co_decrement")]
    /\ UNCHANGED << storeVars, inputVars, retryVars, cancelled, err, result, histVars >>

\* INSERT INTO order_items (...): CHECK (quantity > 0), UNIQUE(order_id, product_id)
InsertOrderItem(c) ==
    LET i == Item(c).product
        q == Item(c).quantity
        unitPrice == co[c].productPrices[i]
        row == [order |-> tx[c].order[1].id, product |-> i, quantity |-> q,
                unitPrice |-> unitPrice, subtotal |-> Mul(unitPrice, q)] IN
    /\ pc[c] = "co_insert_item"
    /\ IF q <= 0
       THEN /\ FnReturns(c, Wrap("create order item", Base("23514")))
            /\ UNCHANGED << tx, co >>
       ELSE IF \E k \in DOMAIN tx[c].lines : tx[c].lines[k].product = i
       THEN /\ FnReturns(c, Wrap("create order item", Base("23505")))
            /\ UNCHANGED << tx, co >>
       ELSE /\ tx' = [tx EXCEPT ![c].lines = Append(@, row)]
            /\ co' = [co EXCEPT ![c].idx = IF @ < Len(req[c].items) THEN @ + 1 ELSE 1]
            /\ pc' = [pc EXCEPT ![c] = NextLine(c, "co_insert_item", "co_decrement")]
            /\ UNCHANGED err
    /\ UNCHANGED << storeVars, inputVars, retryVars, cancelled, result, histVars >>

\* UPDATE products SET stock_quantity = stock_quantity - $1
\*  WHERE id = $2 AND stock_quantity >= $1, and the check of RowsAffected
DecrementLine(c) ==
    LET i == Item(c).product
        q == Item(c).quantity IN
    /\ pc[c] = "co_decrement"
    /\ IF ~StockGuard(c, i, q)
       THEN /\ FnReturns(c, Base("ErrInsufficientStock"))
            /\ UNCHANGED << tx, co >>
       ELSE IF ~StockCheck(Visible(c, i) - q)
       THEN /\ FnReturns(c, Wrap("update stock", Base("23514")))
            /\ UNCHANGED << tx, co >>
       ELSE /\ tx' = [tx EXCEPT ![c].decr[i] = @ + q]
            /\ co' = [co EXCEPT ![c].idx = IF @ < Len(req[c].items) THEN @ + 1 ELSE 1]
            /\ pc' = [pc EXCEPT ![c] = NextLine(c, "co_decrement", "co_fetch")]
            /\ UNCHANGED err
    /\ UNCHANGED << storeVars, inputVars, retryVars, cancelled, result, histVars >>

\* SELECT ... FROM orders WHERE id = $1; return nil
FetchOrder(c) ==
    /\ pc[c] = "co_fetch"
    /\ FnReturns(c, Nil)
    /\ UNCHANGED << storeVars, inputVars, retryVars, cancelled, result, tx, co, histVars >>

(***************************************************************************)
(* WithTransaction (internal/database/tx.go) running ReserveStock or       *)
(* ReserveStockNoWait and then DecrementStock (internal/store/products.go),*)
(* as TestConcurrentStockReservation does, READ COMMITTED.                 *)
(***************************************************************************)
\* the first statement of the unit of work a WithTransaction caller passes
WTEntry(c) == CASE kind[c] = "worker" -> "gn_select"
                [] kind[c] = "decrement" -> "rs_decrement"
                [] req[c].nowait -> "rs_nowait"
                [] OTHER -> "rs_lock"

\* tx, err := db.BeginTx(ctx, ...)
WTBegin(c) ==
    /\ pc[c] = "wt_begin"
    /\ \/ /\ tx' = [tx EXCEPT ![c] = OpenTx]
          /\ began' = [began EXCEPT ![c] = @ + 1]
          /\ fnCalls' = [fnCalls EXCEPT ![c] = @ + 1]
          /\ pc' = [pc EXCEPT ![c] = WTEntry(c)]
          /\ co' = [co EXCEPT ![c] = [NoLocals EXCEPT !.idx = 1]]
          /\ UNCHANGED << err, result >>
       \/ /\ \E e \in BeginFaults :
                /\ err' = [err EXCEPT ![c] = e]
                /\ Return(c, Wrap("begin transaction", e))
          /\ UNCHANGED << tx, began, fnCalls, co >>
    /\ UNCHANGED << storeVars, inputVars, retryVars, cancelled, commits, hist, cancelAt >>

\* the row is read and locked; then: if product.StockQuantity < quantity
ReserveLocked(c, i, q) ==
    /\ lockHolder' = [lockHolder EXCEPT ![i] = @ \cup {c}]
    /\ co' = [co EXCEPT ![c].stockQuantity = Visible(c, i)]
    /\ IF Insufficient(Visible(c, i), q)
       THEN FnReturns(c, Base("ErrInsufficientStock"))
       ELSE /\ pc' = [pc EXCEPT ![c] = "rs_decrement"]
            /\ UNCHANGED err

\* ReserveStock with a fault: the read does not wait for the row
ReserveStockNoLockWait(c) ==
    LET i == Item(c).product
        q == Item(c).quantity IN
    /\ pc[c] = "rs_lock"
    /\ IF i \notin Products
       THEN /\ FnReturns(c, Base("ErrProductNotFound"))
            /\ UNCHANGED << lockHolder, co >>
       ELSE ReserveLocked(c, i, q)
    /\ UNCHANGED << stock, version, orders, orderItems, inputVars, retryVars,
                    cancelled, result, tx, histVars >>

\* ReserveStock with a fault: on success it also writes the decrement
ReserveStockWrites(c) ==
    LET i == Item(c).product
        q == Item(c).quantity IN
    /\ pc[c] = "rs_lock"
    /\ IF i \notin Products
       THEN /\ FnReturns(c, Base("ErrProductNotFound"))
            /\ UNCHANGED << lockHolder, co, tx >>
       ELSE /\ lockHolder[i] \ {c} = {}
            /\ ReserveLocked(c, i, q)
            /\ tx' = [tx EXCEPT ![c].decr[i] =
                         IF Insufficient(Visible(c, i), q) THEN @ ELSE @ + q]
    /\ UNCHANGED << stock, version, orders, orderItems, inputVars, retryVars,
                    cancelled, result, histVars >>

\* ReserveStock: SELECT ... FOR UPDATE waits while another transaction holds the row
ReserveStock(c) ==
    LET i == Item(c).product
        q == Item(c).quantity IN
    /\ pc[c] = "rs_lock"
    /\ IF i \notin Products
       THEN /\ FnReturns(c, Base("ErrProductNotFound"))
            /\ UNCHANGED << lockHolder, co >>
       ELSE /\ lockHolder[i] \ {c} = {}
            /\ ReserveLocked(c, i, q)
    /\ UNCHANGED << stock, version, orders, orderItems, inputVars, retryVars,
                    cancelled, result, tx, histVars >>

\* ReserveStockNoWait with a fault: NOWAIT is left out of the query
ReserveStockWaits(c) ==
    LET i == Item(c).product
        q == Item(c).quantity IN
    /\ pc[c] = "rs_nowait"
    /\ IF i \notin Products
       THEN /\ FnReturns(c, Base("ErrProductNotFound"))
            /\ UNCHANGED << lockHolder, co >>
       ELSE /\ lockHolder[i] \ {c} = {}
            /\ ReserveLocked(c, i, q)
    /\ UNCHANGED << stock, version, orders, orderItems, inputVars, retryVars,
                    cancelled, result, tx, histVars >>

\* ReserveStockNoWait: SELECT ... FOR UPDATE NOWAIT, 55P03 becomes ErrLockTimeout
ReserveStockNoWait(c) ==
    LET i == Item(c).product
        q == Item(c).quantity IN
    /\ pc[c] = "rs_nowait"
    /\ IF i \notin Products
       THEN /\ FnReturns(c, Base("ErrProductNotFound"))
            /\ UNCHANGED << lockHolder, co >>
       ELSE IF lockHolder[i] \ {c} # {}
       THEN /\ FnReturns(c, Base("ErrLockTimeout"))
            /\ UNCHANGED << lockHolder, co >>
       ELSE ReserveLocked(c, i, q)
    /\ UNCHANGED << stock, version, orders, orderItems, inputVars, retryVars,
                    cancelled, result, tx, histVars >>

\* DecrementStock: UPDATE products SET stock_quantity = stock_quantity - $1
\*  WHERE id = $2 AND stock_quantity >= $1, and the check of RowsAffected. The
\* UPDATE waits for the row lock when another transaction holds it and keeps it
\* on the row it changes.
DecrementStock(c) ==
    LET i == Item(c).product
        q == Item(c).quantity IN
    /\ pc[c] = "rs_decrement"
    /\ IF i \notin Products
       THEN /\ FnReturns(c, Base("ErrInsufficientStock"))
            /\ UNCHANGED << tx, lockHolder >>
       ELSE /\ lockHolder[i] \ {c} = {}
            /\ IF ~StockGuard(c, i, q)
               THEN /\ FnReturns(c, Base("ErrInsufficientStock"))
                    /\ UNCHANGED << tx, lockHolder >>
               ELSE IF ~StockCheck(Visible(c, i) - q)
               THEN /\ FnReturns(c, Wrap("decrement stock", Base("23514")))
                    /\ UNCHANGED << tx, lockHolder >>
               ELSE /\ tx' = [tx EXCEPT ![c].decr[i] = @ + q]
                    /\ lockHolder' = [lockHolder EXCEPT ![i] = @ \cup {c}]
                    /\ FnReturns(c, Nil)
    /\ UNCHANGED << stock, version, orders, orderItems, inputVars, retryVars,
                    cancelled, result, co, histVars >>

\* the pending orders whose row no other transaction has locked
Unlocked(c) == {o \in orders : o.status = "pending" /\ lockHolder[RowKey(o)] \ {c} = {}}

\* ORDER BY created_at ... LIMIT 1
Earliest(S) == CHOOSE o \in S : \A p \in S : o.id[2] <= p.id[2]

\* GetNextPendingOrder with a fault: SKIP LOCKED is left out, the query waits
\* for the earliest pending row
GetNextPendingOrderWaits(c) ==
    LET pending == {o \in orders : o.status = "pending"} IN
    /\ pc[c] = "gn_select"
    /\ IF pending = {}
       THEN /\ FnReturns(c, Base("ErrOrderNotFound"))
            /\ UNCHANGED << lockHolder, co >>
       ELSE LET o == Earliest(pending) IN
            /\ lockHolder[RowKey(o)] \ {c} = {}
            /\ lockHolder' = [lockHolder EXCEPT ![RowKey(o)] = @ \cup {c}]
            /\ co' = [co EXCEPT ![c].order = << o >>]
            /\ FnReturns(c, Nil)
    /\ UNCHANGED << stock, version, orders, orderItems, inputVars, retryVars,
                    cancelled, result, tx, histVars >>

\* GetNextPendingOrder: SELECT ... FROM orders WHERE status = 'pending'
\*  ORDER BY created_at FOR UPDATE SKIP LOCKED LIMIT 1
GetNextPendingOrder(c) ==
    /\ pc[c] = "gn_select"
    /\ IF Unlocked(c) = {}
       THEN /\ FnReturns(c, Base("ErrOrderNotFound"))
            /\ UNCHANGED << lockHolder, co >>
       ELSE LET o == Earliest(Unlocked(c)) IN
            /\ lockHolder' = [lockHolder EXCEPT ![RowKey(o)] = @ \cup {c}]
            /\ co' = [co EXCEPT ![c].order = << o >>]
            /\ FnReturns(c, Nil)
    /\ UNCHANGED << stock, version, orders, orderItems, inputVars, retryVars,
                    cancelled, result, tx, histVars >>

\* the error path with a fault: the error of fn is dropped after the rollback
WTFailedReturnsNil(c) ==
    /\ pc[c] = "rollback"
    /\ kind[c] \in WTKinds
    /\ StoreRollback(c)
    /\ Return(c, Nil)
    /\ co' = [co EXCEPT ![c] = NoLocals]
    /\ UNCHANGED << inputVars, retryVars, cancelled, err, histVars >>

\* fn(tx) returned err # nil: tx.Rollback(), return err
WTFailed(c) ==
    /\ pc[c] = "rollback"
    /\ kind[c] \in WTKinds
    /\ StoreRollback(c)
    /\ \/ Return(c, err[c])
       \/ \E rbErr \in RollbackFaults : Return(c, Wrap("rollback failed", err[c]))
    /\ co' = [co EXCEPT ![c] = NoLocals]
    /\ UNCHANGED << inputVars, retryVars, cancelled, err, histVars >>

\* fn(tx) returned nil: tx.Commit()
WTCommit(c) ==
    /\ pc[c] = "commit"
    /\ kind[c] \in WTKinds
    /\ \/ /\ StoreCommit(c)
          /\ commits' = [commits EXCEPT ![c] = @ + 1]
          /\ Return(c, Nil)
          /\ UNCHANGED err
       \/ /\ StoreRollback(c)
          /\ \E e \in CommitFaults(c) :
                /\ err' = [err EXCEPT ![c] = e]
                /\ Return(c, Wrap("commit transaction", e))
          /\ UNCHANGED commits
    /\ co' = [co EXCEPT ![c] = NoLocals]
    /\ UNCHANGED << inputVars, retryVars, cancelled, fnCalls, began, hist, cancelAt >>

(***************************************************************************)
(* Specification of concurrent callers of the store: each runs CreateOrder *)
(* or a reservation transaction, with context.Background() as in the       *)
(* integration tests.                                                      *)
(***************************************************************************)
ItemLists ==
    {<< Line("A", q) >> : q \in 0..MaxQty}
        \cup {<< Line("A", 1), Line("B", q) >> : q \in 1..MaxQty}
        \cup { << Line("B", 1), Line("A", 1) >>,
               << Line("A", 1), Line("A", 1) >>,
               << Line(MissingProduct, 1) >> }

OrderRequests ==
    {[user |-> "u1", items |-> its, nowait |-> TRUE] : its \in ItemLists}
        \cup {[user |-> MissingUser, items |-> << Line("A", 1) >>, nowait |-> TRUE]}

ReserveRequests ==
    {[user |-> "u1", items |-> << Line("A", q) >>, nowait |-> w] :
        q \in {-1} \cup 1..MaxQty, w \in BOOLEAN}
        \cup {[user |-> "u1", items |-> << Line(MissingProduct, 1) >>, nowait |-> FALSE]}

Init ==
    /\ InitCommon
    /\ orders = {}
    /\ kind \in [Callers -> {"order", "reserve"}]
    /\ req \in [Callers -> OrderRequests \cup ReserveRequests]
    /\ \A c \in Callers : req[c] \in (IF kind[c] = "order" THEN OrderRequests ELSE ReserveRequests)
    /\ opts = [c \in Callers |-> CreateOrderMaxRetries]
    /\ pc = [c \in Callers |-> IF kind[c] = "order" THEN "loop" ELSE "wt_begin"]

Next ==
    \E c \in Callers :
        \/ LoopHead(c)
        \/ BeginTx(c)
        \/ CheckUser(c)
        \/ LockProduct(c)
        \/ InsertOrder(c)
        \/ InsertOrderItem(c)
        \/ DecrementLine(c)
        \/ FetchOrder(c)
        \/ FnFailed(c)
        \/ Commit(c)
        \/ Sleep(c)
        \/ WTBegin(c)
        \/ ReserveStock(c)
        \/ ReserveStockNoWait(c)
        \/ DecrementStock(c)
        \/ WTFailed(c)
        \/ WTCommit(c)

Spec == Init /\ [][Next]_vars

\* a step of caller c: each caller is a goroutine of its own
CallerStep(c) ==
    \/ LoopHead(c) \/ BeginTx(c) \/ CheckUser(c) \/ LockProduct(c) \/ InsertOrder(c)
    \/ InsertOrderItem(c) \/ DecrementLine(c) \/ FetchOrder(c) \/ FnFailed(c)
    \/ Commit(c) \/ Sleep(c) \/ WTBegin(c) \/ ReserveStock(c) \/ ReserveStockNoWait(c)
    \/ DecrementStock(c) \/ WTFailed(c) \/ WTCommit(c)

\* the same callers, each of which goes on running while it has a step to
\* take: the store answers every statement, the timer of a sleep fires
SpecFair == Spec /\ \A c \in Callers : WF_vars(CallerStep(c))

(***************************************************************************)
(* Specification of the two executors side by side: caller 1 runs          *)
(* WithRetry with any unit of work and a context that may be cancelled,    *)
(* caller 2 runs WithTransaction around a reservation.                     *)
(***************************************************************************)
InitTx ==
    /\ InitCommon
    /\ orders = {}
    /\ kind = [c \in Callers |-> IF c = 1 THEN "generic"
                                 ELSE IF c = 2 THEN "reserve" ELSE "none"]
    /\ \E r \in ReserveRequests :
          req = [c \in Callers |-> IF c = 2 THEN r ELSE NoRequest]
    /\ \E m \in -1..MaxRetriesBound : opts = [c \in Callers |-> m]
    /\ pc = [c \in Callers |-> IF c = 1 THEN "loop"
                               ELSE IF c = 2 THEN "wt_begin" ELSE "done"]

NextTx ==
    \E c \in Callers :
        \/ LoopHead(c)
        \/ BeginTx(c)
        \/ Fn(c)
        \/ FnFailed(c)
        \/ Commit(c)
        \/ Sleep(c)
        \/ Cancel(c)
        \/ WTBegin(c)
        \/ ReserveStock(c)
        \/ ReserveStockNoWait(c)
        \/ DecrementStock(c)
        \/ WTFailed(c)
        \/ WTCommit(c)

SpecTx == InitTx /\ [][NextTx]_vars

(***************************************************************************)
(* UpdateStockOptimistic (internal/store/products.go): one statement run   *)
(* on the database handle, outside any transaction, so it commits by       *)
(* itself.  A caller makes the call with the revision it read and may make *)
(* it again with the same arguments, as TestOptimisticLocking does.        *)
(***************************************************************************)
\* the WHERE clause with a fault: the version is not compared
VersionIgnored(i, v) == TRUE

\* WHERE id = $2 AND version = $3, of a row that exists
VersionMatches(i, v) == version[i] = v

UpdateStockOptimistic(c) ==
    LET productID == req[c].productID
        newStock == req[c].newStock IN
    /\ pc[c] = "op_update"
    /\ fnCalls' = [fnCalls EXCEPT ![c] = @ + 1]
    /\ IF productID \notin Products
       THEN /\ Return(c, Base("ErrOptimisticLockFailed"))
            /\ UNCHANGED << stock, version >>
       ELSE IF ~VersionMatches(productID, req[c].version)
       THEN /\ Return(c, Base("ErrOptimisticLockFailed"))
            /\ UNCHANGED << stock, version >>
       ELSE /\ lockHolder[productID] \ {c} = {}
            /\ IF ~StockCheck(newStock)
               THEN /\ Return(c, Wrap("update stock", Base("23514")))
                    /\ UNCHANGED << stock, version >>
               ELSE /\ stock' = [stock EXCEPT ![productID] = newStock]
                    /\ version' = [version EXCEPT ![productID] = @ + 1]
                    /\ Return(c, Nil)
    /\ tx' = [d \in Callers |->
                IF version' # version /\ tx[d].open /\ tx[d].snap
                THEN [tx[d] EXCEPT !.stale = @ \cup {productID}] ELSE tx[d]]
    /\ UNCHANGED << lockHolder, orders, orderItems, inputVars, retryVars, cancelled,
                    err, co, began, commits, hist, cancelAt >>

\* the caller makes the same call once more
CallAgain(c) ==
    /\ kind[c] = "optimistic"
    /\ pc[c] = "done"
    /\ fnCalls[c] < MaxCalls
    /\ pc' = [pc EXCEPT ![c] = "op_update"]
    /\ UNCHANGED << storeVars, inputVars, retryVars, histVars, cancelled, err, result, tx, co >>

(***************************************************************************)
(* Specification of the locking policies: caller 1 makes optimistic        *)
(* updates or dequeues a pending order, caller 2 makes optimistic updates, *)
(* runs a reservation transaction or dequeues a pending order.             *)
(***************************************************************************)
OptimisticRequests ==
    [productID : Products \cup {MissingProduct},
     newStock : -1..MaxQty,
     version : InitVersion..(InitVersion + 1)]

InitOpt ==
    /\ InitCommon
    /\ orders = SeedOrders
    /\ \E k1 \in {"optimistic", "worker"}, k2 \in {"optimistic", "reserve", "worker"} :
          kind = [c \in Callers |-> IF c = 1 THEN k1
                                     ELSE IF c = 2 THEN k2 ELSE "none"]
    /\ req \in [Callers -> OptimisticRequests \cup ReserveRequests \cup {NoRequest}]
    /\ \A c \in Callers :
          req[c] \in (CASE kind[c] = "optimistic" -> OptimisticRequests
                        [] kind[c] = "reserve" -> ReserveRequests
                        [] OTHER -> {NoRequest})
    /\ opts = [c \in Callers |-> CreateOrderMaxRetries]
    /\ pc = [c \in Callers |-> CASE kind[c] = "optimistic" -> "op_update"
                                  [] kind[c] \in WTKinds -> "wt_begin"
                                  [] OTHER -> "done"]

NextOpt ==
    \E c \in Callers :
        \/ UpdateStockOptimistic(c)
        \/ CallAgain(c)
        \/ WTBegin(c)
        \/ ReserveStock(c)
        \/ ReserveStockNoWait(c)
        \/ DecrementStock(c)
        \/ GetNextPendingOrder(c)
        \/ WTFailed(c)
        \/ WTCommit(c)

SpecOpt == InitOpt /\ [][NextOpt]_vars

(***************************************************************************)
(* Specification of every writer of the products table side by side:       *)
(* caller 1 runs CreateOrder, a reservation transaction or a transaction   *)
(* that calls DecrementStock alone; caller 2 makes optimistic updates or   *)
(* runs a transaction that calls DecrementStock alone.                     *)
(***************************************************************************)
DecrementRequests == {r \in ReserveRequests : ~r.nowait}

InitWriters ==
    /\ InitCommon
    /\ orders = {}
    /\ \E k1 \in {"order", "reserve", "decrement"}, k2 \in {"optimistic", "decrement"} :
          kind = [c \in Callers |-> IF c = 1 THEN k1
                                     ELSE IF c = 2 THEN k2 ELSE "none"]
    /\ req \in [Callers -> OrderRequests \cup ReserveRequests \cup OptimisticRequests
                               \cup {NoRequest}]
    /\ \A c \in Callers :
          req[c] \in (CASE kind[c] = "order" -> OrderRequests
                        [] kind[c] = "reserve" -> ReserveRequests
                        [] kind[c] = "decrement" -> DecrementRequests
                        [] kind[c] = "optimistic" -> OptimisticRequests
                        [] OTHER -> {NoRequest})
    /\ opts = [c \in Callers |-> CreateOrderMaxRetries]
    /\ pc = [c \in Callers |-> CASE kind[c] = "order" -> "loop"
                                  [] kind[c] = "optimistic" -> "op_update"
                                  [] kind[c] \in WTKinds -> "wt_begin"
                                  [] OTHER -> "done"]

NextWriters ==
    \E c \in Callers :
        \/ LoopHead(c)
        \/ BeginTx(c)
        \/ CheckUser(c)
        \/ LockProduct(c)
        \/ InsertOrder(c)
        \/ InsertOrderItem(c)
        \/ DecrementLine(c)
        \/ FetchOrder(c)
        \/ FnFailed(c)
        \/ Commit(c)
        \/ Sleep(c)
        \/ WTBegin(c)
        \/ ReserveStock(c)
        \/ ReserveStockNoWait(c)
        \/ DecrementStock(c)
        \/ WTFailed(c)
        \/ WTCommit(c)
        \/ UpdateStockOptimistic(c)
        \/ CallAgain(c)

SpecWriters == InitWriters /\ [][NextWriters]_vars

(***************************************************************************)
(* Cursor pagination: EncodeCursor and DecodeCursor (pkg/pagination) and   *)
(* ListOrdersCursor (internal/store/orders.go).  A time.Time is an        *)
(* instant (sec), the offset of its zone and whether it carries a         *)
(* monotonic clock reading; a token is the text the encoding produces,    *)
(* kept as a tuple of its parts.                                           *)
(***************************************************************************)
GoTime(sec, zone, mono) == [sec |-> sec, zone |-> zone, mono |-> mono]

\* zone offsets, in ticks: UTC and one zone ahead of it
Zones == {0, 1}

\* the created_at values of orders rows
Times == 1..MaxTime

\* what time.Now() may read in the caller's process: its clock is behind the
\* store's, or past every created_at
ClockTimes == {MaxTime - 1, MaxTime + 1}

\* the first instant of the year 10000
Year10000 == MaxTime + 2

\* int64(1<<63 - 1): above every id of the model
MaxID == MaxRows + MaxInserts + 1

\* the token ""
EmptyToken == << >>

\* time.Time.MarshalJSON: RFC 3339 with nanoseconds, the wall clock in the
\* time's zone followed by the offset; the monotonic reading is left out
MarshalTime(t) == << t.sec + t.zone, t.zone >>

\* Time.MarshalJSON fails when the year is outside [0, 9999]
Marshalable(t) == t.sec + t.zone < Year10000

\* time.Time.UnmarshalJSON
UnmarshalTime(wall, zone) == GoTime(wall - zone, zone, FALSE)

\* t.Equal(u): the same instant
TimeEqual(t, u) == t.sec = u.sec

\* EncodeCursor with a fault: the timestamp is written as UTC wall clock while
\* the zone's offset is kept
EncodeCursorWallAsUTC(cursor) ==
    IF ~Marshalable(cursor.CreatedAt) THEN EmptyToken
    ELSE << "base64", cursor.CreatedAt.sec, cursor.CreatedAt.zone, cursor.ID >>

\* EncodeCursor: json.Marshal, "" when it fails, else base64.URLEncoding
EncodeCursor(cursor) ==
    IF ~Marshalable(cursor.CreatedAt) THEN EmptyToken
    ELSE << "base64" >> \o MarshalTime(cursor.CreatedAt) \o << cursor.ID >>

\* var cursor OrderCursor
ZeroCursor == [CreatedAt |-> GoTime(0, 0, FALSE), ID |-> 0]

\* DecodeCursor; now is what time.Now() reads
DecodeCursor(encoded, now) ==
    IF encoded = EmptyToken
    THEN [cursor |-> [CreatedAt |-> GoTime(now, 0, TRUE), ID |-> MaxID], err |-> Nil]
    ELSE IF Head(encoded) # "base64"
    THEN [cursor |-> ZeroCursor, err |-> Base("base64.CorruptInputError")]
    ELSE IF Len(encoded) # 4
    THEN [cursor |-> ZeroCursor, err |-> Base("json.SyntaxError")]
    ELSE [cursor |-> [CreatedAt |-> UnmarshalTime(encoded[2], encoded[3]),
                      ID |-> encoded[4]],
          err |-> Nil]

\* the positions handed to EncodeCursor
Positions ==
    [CreatedAt : {GoTime(sec, zone, mono) :
                     sec \in (0..MaxTime) \cup {Year10000}, zone \in Zones, mono \in BOOLEAN},
     ID : {1, 2, MaxID}]

\* token := EncodeCursor(p)
EncodeStep(c) ==
    /\ pc[c] = "encode"
    /\ co' = [co EXCEPT ![c].cursor = EncodeCursor(req[c])]
    /\ pc' = [pc EXCEPT ![c] = "decode"]
    /\ UNCHANGED << storeVars, inputVars, retryVars, histVars, cancelled, err, result, tx >>

\* p, err := DecodeCursor(token)
DecodeStep(c) ==
    /\ pc[c] = "decode"
    /\ \E now \in (IF co[c].cursor = EmptyToken THEN ClockTimes ELSE {1}) :
          LET d == DecodeCursor(co[c].cursor, now) IN
          /\ result' = [result EXCEPT ![c] = << d.cursor >>]
          /\ err' = [err EXCEPT ![c] = d.err]
    /\ pc' = [pc EXCEPT ![c] = "done"]
    /\ UNCHANGED << storeVars, inputVars, retryVars, histVars, cancelled, tx, co >>

(***************************************************************************)
(* Specification of the cursor codec: each caller encodes a position and   *)
(* decodes the token it got.                                               *)
(***************************************************************************)
InitCursor ==
    /\ InitCommon
    /\ orders = {}
    /\ kind = [c \in Callers |-> "codec"]
    /\ req \in [Callers -> Positions]
    /\ opts = [c \in Callers |-> 0]
    /\ pc = [c \in Callers |-> "encode"]

NextCursor ==
    \E c \in Callers :
        \/ EncodeStep(c)
        \/ DecodeStep(c)

SpecCursor == InitCursor /\ [][NextCursor]_vars

(***************************************************************************)
(* ListOrdersCursor (internal/store/orders.go).  An orders row is here its *)
(* id, its user and its created_at; a caller lists with a token and a      *)
(* limit and, while the page says there is more, lists again with the      *)
(* token of the page; another caller commits orders meanwhile.             *)
(***************************************************************************)
ListUsers == {"u1", "u2"}

OrderRow(id, user, createdAt) ==
    [id |-> id, user |-> user, createdAt |-> createdAt, status |-> "pending", total |-> 0]

\* the position of a row, and of a cursor, as the query compares them
RowPos(r) == << r.createdAt, r.id >>
CursorPos(cursor) == << cursor.CreatedAt.sec, cursor.ID >>

\* the row comparison with a fault: <= in place of <
PosLessOrEqual(p, q) == p[1] < q[1] \/ (p[1] = q[1] /\ p[2] <= q[2])

\* (created_at, id) < ($2, $3)
PosLess(p, q) == p[1] < q[1] \/ (p[1] = q[1] /\ p[2] < q[2])

\* WHERE user_id = $1 AND (created_at, id) < ($2, $3)
Matching(table, user, pos) == {r \in table : r.user = user /\ PosLess(RowPos(r), pos)}

\* ORDER BY created_at DESC, id DESC LIMIT n
RECURSIVE Fetch(_, _)
Fetch(S, n) ==
    IF S = {} \/ n <= 0 THEN << >>
    ELSE LET top == CHOOSE r \in S : \A o \in S :
                        \/ o.createdAt < r.createdAt
                        \/ o.createdAt = r.createdAt /\ o.id <= r.id IN
         << top >> \o Fetch(S \ {top}, n - 1)

\* the test with a fault: the extra row is not told from a full page
HasMoreOnFullPage(n, limit) == n >= limit

\* hasMore := len(orders) > limit
HasMore(n, limit) == n > limit

\* the token the next call is made with
TokenOf(c) == IF fnCalls[c] = 0 THEN req[c].cursor ELSE co[c].cursor

\* one call of ListOrdersCursor; the page is kept in hist with the token it
\* was asked with, the position decoded and the table it was read from
ListOrdersCursor(c) ==
    LET token == TokenOf(c)
        limit == req[c].limit IN
    /\ pc[c] = "list"
    /\ fnCalls' = [fnCalls EXCEPT ![c] = @ + 1]
    /\ \E now \in (IF token = EmptyToken THEN ClockTimes ELSE {1}) :
          LET cursorData == DecodeCursor(token, now) IN
          IF cursorData.err # Nil
          THEN /\ Return(c, Wrap("decode cursor", cursorData.err))
               /\ UNCHANGED << hist, co >>
          ELSE LET rows == Fetch(Matching(orders, req[c].user, CursorPos(cursorData.cursor)),
                                 limit + 1)
                   hasMore == HasMore(Len(rows), limit)
                   items == IF hasMore THEN SubSeq(rows, 1, limit) ELSE rows
                   lastOrder == items[Len(items)]
                   nextCursor == IF hasMore /\ Len(items) > 0
                                 THEN EncodeCursor([CreatedAt |-> GoTime(lastOrder.createdAt, 0, FALSE),
                                                    ID |-> lastOrder.id])
                                 ELSE EmptyToken IN
               /\ hist' = [hist EXCEPT ![c] =
                              Append(@, [cursor |-> token,
                                         position |-> CursorPos(cursorData.cursor),
                                         table |-> orders,
                                         Items |-> items,
                                         NextCursor |-> nextCursor,
                                         HasMore |-> hasMore])]
               /\ co' = [co EXCEPT ![c].cursor = nextCursor]
               /\ Return(c, Nil)
    /\ UNCHANGED << storeVars, inputVars, retryVars, cancelled, err, tx,
                    began, commits, cancelAt >>

\* the caller asks for the next page, as TestListOrdersCursor does
FollowToken(c) ==
    /\ kind[c] = "list"
    /\ pc[c] = "done"
    /\ result[c] = Nil
    /\ hist[c][Len(hist[c])].HasMore
    /\ fnCalls[c] < MaxPages
    /\ pc' = [pc EXCEPT ![c] = "list"]
    /\ UNCHANGED << storeVars, inputVars, retryVars, histVars, cancelled, err, result, tx, co >>

\* an order is committed (CreateOrder by another caller): the id is the next of
\* the sequence, created_at is the NOW() of the transaction that inserted it
InsertCommitted(c) ==
    /\ kind[c] = "insert"
    /\ commits[c] < MaxInserts
    /\ \E user \in ListUsers, createdAt \in Times :
          orders' = orders \cup {OrderRow(MaxRows + commits[c] + 1, user, createdAt)}
    /\ commits' = [commits EXCEPT ![c] = @ + 1]
    /\ UNCHANGED << stock, version, lockHolder, orderItems, inputVars, retryVars,
                    cancelled, pc, err, result, tx, co, fnCalls, began, hist, cancelAt >>

\* the tables a listing may start from: each id is absent or a row of some user
\* created at some time
Tables ==
    UNION {{ {OrderRow(id, f[id][1], f[id][2]) : id \in D} :
              f \in [D -> ListUsers \X Times]} : D \in SUBSET (1..MaxRows)}

\* the tokens a listing may start with: none, one that is no token, and the
\* token of a position
StartTokens ==
    {EmptyToken, << "not base64" >>,
     EncodeCursor([CreatedAt |-> GoTime(2, 1, FALSE), ID |-> 2])}

ListRequests == [user : {"u1"}, cursor : StartTokens, limit : 0..MaxLimit]

(***************************************************************************)
(* Specification of a listing beside concurrent inserts.                   *)
(***************************************************************************)
InitPage ==
    /\ InitCommon
    /\ orders \in Tables
    /\ kind = [c \in Callers |-> IF c = 1 THEN "list"
                                 ELSE IF c = 2 THEN "insert" ELSE "none"]
    /\ \E r \in ListRequests : req = [c \in Callers |-> r]
    /\ opts = [c \in Callers |-> 0]
    /\ pc = [c \in Callers |-> IF c = 1 THEN "list" ELSE "done"]

NextPage ==
    \E c \in Callers :
        \/ ListOrdersCursor(c)
        \/ FollowToken(c)
        \/ InsertCommitted(c)

SpecPage == InitPage /\ [][NextPage]_vars

(***************************************************************************)
(* Properties of the store under concurrent callers, under Spec.           *)
(***************************************************************************)
\* the call of c returned nil
Succeeded(c) == pc[c] = "done" /\ result[c] = Nil

\* the quantity of product i that the request of c asks for, over all its lines
RECURSIVE QtyOf(_, _)
QtyOf(items, i) ==
    IF items = << >> THEN 0
    ELSE (IF Head(items).product = i THEN Head(items).quantity ELSE 0) + QtyOf(Tail(items), i)

\* the sum of f over the callers in S
RECURSIVE SumOver(_, _)
SumOver(S, f) ==
    IF S = {} THEN 0
    ELSE LET c == CHOOSE d \in S : TRUE IN f[c] + SumOver(S \ {c}, f)

Requested(i) == [c \in Callers |-> QtyOf(req[c].items, i)]

AllOrders == \A c \in Callers : kind[c] = "order"

\* C1: the committed stock_quantity of every product is >= 0 in every state,
\* whatever CreateOrder calls and reservation transactions (ReserveStock or
\* ReserveStockNoWait, then DecrementStock) run concurrently.
C1_StockNeverNegative ==
    \A i \in Products : stock[i] >= 0

C1_Witness ==
    \E c, d \in Callers :
        /\ kind[c] = "order" /\ Succeeded(c)
        /\ kind[d] = "reserve" /\ Succeeded(d)
        /\ Requested("A")[c] = 1
        /\ Requested("A")[d] = 1
        /\ stock["A"] = 0

\* C2: in every state the committed stock of each product is its initial stock
\* less the quantities of the calls that returned success: a call that returned
\* an error, or has not returned, has decremented nothing; and when all calls
\* are CreateOrder calls the quantities of the successful ones never add up to
\* more than the initial stock.
C2_StockIsInitialLessSuccessful ==
    \A i \in Products :
        LET done == {c \in Callers : Succeeded(c)} IN
        /\ stock[i] = StartStock(i) - SumOver(done, Requested(i))
        /\ AllOrders => SumOver(done, Requested(i)) <= StartStock(i)

C2_Witness ==
    /\ AllOrders
    /\ \A c \in Callers : pc[c] = "done" /\ req[c].items = << Line("A", 2) >>
    /\ \E c, d \in Callers :
          /\ Succeeded(c)
          /\ result[d] = Base("ErrInsufficientStock")
    /\ stock["A"] = 0

\* C3 as claimed: N concurrent CreateOrder calls for quantity Q of one product
\* with stock S, none ended by a fault of the store connection: when all have
\* returned, min(N, S div Q) of them succeeded and every other one returned
\* ErrInsufficientStock.
SameOrder(q) ==
    /\ AllOrders
    /\ \A c \in Callers : req[c] = [user |-> "u1", items |-> << Line("A", q) >>, nowait |-> TRUE]

StoreFault(e) ==
    e # Nil /\ Head(e) \in {"begin transaction", "rollback failed", "commit transaction",
                            "max retries exceeded on commit"}

C3_ExactlyFloorSucceed ==
    \A q \in 1..MaxQty :
        ( /\ SameOrder(q)
          /\ \A c \in Callers : pc[c] = "done" /\ ~StoreFault(result[c]) )
        => LET won == {c \in Callers : Succeeded(c)}
               floor == StartStock("A") \div q IN
           /\ Cardinality(won) = (IF floor < NumCallers THEN floor ELSE NumCallers)
           /\ \A c \in Callers \ won : result[c] = Base("ErrInsufficientStock")

\* C4: an order is visible whole or not at all. In every committed state each
\* CreateOrder call has either no orders row and no order_items row, or one
\* pending orders row with one order_items row for every line it requested;
\* the stock of each product is its initial stock less every quantity requested
\* by the orders that are visible (and by the reservations that returned
\* success); and a call that returned an error has left nothing visible.
OrderRows(c) == {o \in orders : o.id[1] = c}
LineRows(c) == {l \in orderItems : l.order[1] = c}

Absent(c) == OrderRows(c) = {} /\ LineRows(c) = {}

Present(c) ==
    /\ Cardinality(OrderRows(c)) = 1
    /\ \A o \in OrderRows(c) :
          /\ o.status = "pending"
          /\ \A l \in LineRows(c) : l.order = o.id
    /\ {[product |-> l.product, quantity |-> l.quantity] : l \in LineRows(c)}
           = {req[c].items[k] : k \in DOMAIN req[c].items}
    /\ Cardinality(LineRows(c)) = Len(req[c].items)

C4_OrderWholeOrAbsent ==
    /\ \A c \in Callers :
          /\ Absent(c) \/ Present(c)
          /\ (pc[c] = "done" /\ result[c] # Nil) => Absent(c)
          /\ (kind[c] = "order" /\ Succeeded(c)) => Present(c)
    /\ \A i \in Products :
          LET applied == {c \in Callers : Present(c) \/ (kind[c] = "reserve" /\ Succeeded(c))} IN
          stock[i] = StartStock(i) - SumOver(applied, Requested(i))

C4_Witness ==
    \E c, d \in Callers :
        /\ req[c].items = << Line("A", 1), Line("B", 2) >>
        /\ pc[c] = "done"
        /\ result[c] = Base("ErrInsufficientStock")
        /\ Absent(c)
        /\ req[d].items = << Line("B", 1), Line("A", 1) >>
        /\ kind[d] = "order"
        /\ Present(d)
        /\ stock = [i \in Products |-> StartStock(i) - 1]

\* C5 as claimed: CreateOrder runs its unit of work again only after a deadlock
\* or a serialization failure; a refused row lock (55P03) or insufficient stock
\* is returned to the caller as it is (unless the rollback failed), without a
\* backoff sleep or another attempt.
Unretried(e) == Innermost(e) \in {"55P03", "ErrInsufficientStock"}

C16_Step(c) ==
    LET i == Item(c).product IN
    (pc[c] = "rs_nowait" /\ pc'[c] # pc[c] /\ i \in Products /\ lockHolder[i] \ {c} # {})
        => /\ err'[c] = Base("ErrLockTimeout")
           /\ pc'[c] = "rollback"
           /\ lockHolder' = lockHolder
           /\ c \notin lockHolder'[i]
           /\ << stock, version >>' = << stock, version >>

C16_NoWaitNeverWaits ==
    /\ [](\A c \in Callers : pc[c] = "rs_nowait" => ENABLED ReserveStockNoWait(c))
    /\ [][\A c \in Callers : C16_Step(c)]_vars

C16_Witness ==
    \E c, d \in Callers :
        /\ kind[c] = "reserve" /\ req[c].nowait
        /\ pc[c] = "done"
        /\ result[c] = Base("ErrLockTimeout")
        /\ kind[d] = "reserve" /\ ~req[d].nowait
        /\ pc[d] = "rs_decrement"
        /\ lockHolder["A"] = {d}

\* C17 as claimed: every committed decrement of a product's stock (by
\* DecrementStock or by CreateOrder) has raised the product's version, so the
\* version has grown by at least the number of calls that decremented the
\* product and returned success.
C17_DecrementRaisesVersion ==
    \A i \in Products :
        LET decremented == {c \in Callers : Succeeded(c) /\ Requested(i)[c] > 0} IN
        version[i] >= InitVersion + Cardinality(decremented)

\* what C18 and its amendment share: when the rollback succeeded, a missing
\* user, a missing product and insufficient stock are returned as the sentinel
\* errors themselves
C18_SentinelsVerbatim(c) ==
    ( /\ kind[c] = "order"
      /\ pc[c] = "done"
      /\ err[c] # Nil
      /\ Head(result[c]) # "rollback failed"
      /\ Innermost(err[c]) \in {"ErrUserNotFound", "ErrProductNotFound", "ErrInsufficientStock"} )
        => result[c] = Base(Innermost(err[c]))

\* a call of CreateOrder that ended on a refused row lock
C18_LockRefused(c) ==
    /\ kind[c] = "order"
    /\ pc[c] = "done"
    /\ err[c] # Nil
    /\ Head(result[c]) # "rollback failed"
    /\ Innermost(err[c]) = "55P03"

C19_MissingUser ==
    \A c \in Callers :
        (kind[c] = "order" /\ req[c].user \notin Users) =>
            /\ \A i \in Products : c \notin lockHolder[i]
            /\ tx[c].order = << >> /\ tx[c].lines = << >> /\ tx[c].decr = NoDecr
            /\ Absent(c)
            /\ attempt[c] = 0
            /\ fnCalls[c] <= 1
            /\ pc[c] \notin {"co_lock", "co_insert_order", "co_insert_item", "co_decrement",
                             "co_fetch", "commit", "sleep"}
            /\ (pc[c] = "done" /\ ~StoreFault(result[c]))
                  => result[c] = Base("ErrUserNotFound") /\ fnCalls[c] = 1

C19_Witness ==
    \E c, d \in Callers :
        /\ kind[c] = "order" /\ req[c].user = MissingUser
        /\ pc[c] = "done"
        /\ result[c] = Base("ErrUserNotFound")
        /\ kind[d] = "order" /\ Succeeded(d)
        /\ req[d].items = << Line("A", 2) >>
        /\ stock["A"] = 0

\* C20: every committed orders row has status pending and a total that is the
\* sum of the subtotals of its order_items rows; every order_items row has
\* subtotal = quantity * unit price, the unit price being the product's price
\* read when its row was locked; committed rows are never changed or removed.
LinesOf(o) == {l \in orderItems : l.order = o.id}

C20_Rows ==
    /\ \A o \in orders :
          /\ o.status = "pending"
          /\ o.total = SumOver(LinesOf(o), [l \in LinesOf(o) |-> l.subtotal])
    /\ \A l \in orderItems :
          /\ l.subtotal = l.quantity * l.unitPrice
          /\ l.unitPrice = Price(l.product)
          /\ \E o \in orders : o.id = l.order

AllBlockingReserve == \A c \in Callers : kind[c] = "reserve" /\ ~req[c].nowait

\* C30: the lock of a products row is held by at most one open transaction; a
\* caller at ReserveStock whose row another transaction holds cannot take its
\* step until that transaction has committed or rolled back, and can as soon as
\* the row is free; when all callers run ReserveStock then DecrementStock and
\* have returned, the stock of each product is its initial stock less the
\* quantities of the calls that returned nil; stock is never below zero.
C30_BlockingReserve ==
    /\ [](\A i \in Products :
            /\ Cardinality(lockHolder[i]) <= 1
            /\ \A c \in lockHolder[i] : tx[c].open
            /\ stock[i] >= 0)
    /\ [](\A c \in Callers :
            (pc[c] = "rs_lock" /\ Item(c).product \in Products)
                => (ENABLED ReserveStock(c) <=> lockHolder[Item(c).product] \ {c} = {}))
    /\ []((AllBlockingReserve /\ \A c \in Callers : pc[c] = "done")
            => \A i \in Products :
                  stock[i] = StartStock(i)
                               - SumOver({c \in Callers : Succeeded(c)}, Requested(i)))

C30_Witness ==
    /\ AllBlockingReserve
    /\ req[1].items = << Line("A", 2) >> /\ req[2].items = << Line("A", 2) >>
    /\ pc[1] = "rs_lock"
    /\ lockHolder["A"] = {2}
    /\ pc[2] = "commit"
    /\ tx[2].decr["A"] = 2
    /\ ~ENABLED ReserveStock(1)

(***************************************************************************)
(* Properties of WithRetry and of the classifier, under SpecRetry.         *)
(***************************************************************************)
\* what the documentation's table of PostgreSQL codes says of an innermost error
TableClass(b) ==
    CASE b = "40001" -> "Serialization"
      [] b = "40P01" -> "Deadlock"
      [] b = "55P03" -> "Transient"
      [] OTHER -> "Permanent"

ErrorsInState(c) == {err[c], lastErr[c], result[c]}

ExhaustedMarkers == {"max retries exceeded", "max retries exceeded on commit"}

\* C6: a Permanent failure of the unit of work (a uniqueness violation for one)
\* ends the call in the attempt it happens in, so after one attempt when it is
\* the first, and is returned as it is; a unit of work that fails with a deadlock
\* on every attempt is never invoked more than MaxRetries + 1 times and, when
\* neither cancellation nor a store fault ends the call earlier, is invoked
\* exactly MaxRetries + 1 times, after which the call returns the deadlock
\* wrapped as "max retries exceeded".
C6_PermanentOnceDeadlockExhausts ==
    \A c \in Callers :
        /\ fnCalls[c] <= opts[c] + 1 \/ fnCalls[c] = 0
        /\ \A k \in DOMAIN hist[c] :
              (hist[c][k][1] = "fn" /\ TableClass(hist[c][k][2]) = "Permanent")
                  => /\ k = Len(hist[c])
                     /\ pc[c] = "done"
                     /\ fnCalls[c] = k
                     /\ result[c] = err[c]
        /\ ( /\ pc[c] = "done"
             /\ hist[c] # << >>
             /\ fnCalls[c] = Len(hist[c])
             /\ \A k \in DOMAIN hist[c] : hist[c][k] = << "fn", "40P01" >>
             /\ ~cancelled[c]
             /\ Head(result[c]) # "begin transaction" )
           => /\ fnCalls[c] = opts[c] + 1
              /\ result[c] = Wrap("max retries exceeded", err[c])
              /\ Innermost(result[c]) = "40P01"

C6_Witness ==
    \E c \in Callers :
        /\ pc[c] = "done"
        /\ opts[c] = 2
        /\ fnCalls[c] = 3
        /\ hist[c] = << << "fn", "40P01" >>, << "fn", "40P01" >>, << "fn", "40P01" >> >>
        /\ result[c] = Wrap("max retries exceeded", Base("40P01"))

\* C7: ClassifyError maps every error to one of four classes: by the innermost
\* PostgreSQL code 40001 to Serialization, 40P01 to Deadlock, 55P03 to
\* Transient, and every other error (constraint violations, sql.ErrNoRows, the
\* sentinel errors, anything unrecognized, nil) to Permanent; IsRetryable holds
\* exactly of the errors classified Transient, Deadlock or Serialization.
C7_ClassifierTable ==
    \A c \in Callers : \A e \in ErrorsInState(c) :
        /\ ClassifyError(e) \in {ErrorClassPermanent, ErrorClassTransient,
                                 ErrorClassDeadlock, ErrorClassSerialization}
        /\ ClassifyError(e) = (IF e = Nil THEN "Permanent" ELSE TableClass(Innermost(e)))
        /\ IsRetryable(e) <=> (e # Nil /\ Innermost(e) \in {"40001", "40P01", "55P03"})

C7_Witness ==
    \E c \in Callers :
        /\ pc[c] = "sleep"
        /\ lastErr[c] = Wrap("unit of work", Base("55P03"))
        /\ hist[c] = << << "commit", "40001" >>, << "fn", "55P03" >> >>

\* C8: an error of tx.Commit() goes through the policy of an error of the unit
\* of work: Permanent, it is returned at once (as "commit transaction: ...");
\* retryable with attempts left, the call sleeps backoff plus jitter and the next
\* attempt begins a new transaction and invokes the unit of work again;
\* retryable on the last attempt, the call returns it as retries exhausted.
C8_CommitStep(c) ==
    (pc[c] = "commit" /\ pc'[c] # "commit") =>
        \/ /\ pc'[c] = "done" /\ result'[c] = Nil /\ commits'[c] = commits[c] + 1
        \/ /\ err'[c] # Nil
           /\ commits'[c] = commits[c]
           /\ ~tx'[c].open
           /\ CASE TableClass(Innermost(err'[c])) = "Permanent" ->
                      pc'[c] = "done" /\ result'[c] = Wrap("commit transaction", err'[c])
                [] OTHER ->
                      IF attempt[c] < opts[c]
                      THEN /\ pc'[c] = "sleep"
                           /\ lastErr'[c] = err'[c]
                           /\ sleepDuration'[c] >= backoff[c]
                      ELSE /\ pc'[c] = "done"
                           /\ result'[c] = Wrap("max retries exceeded on commit", err'[c])

C8_NewAttempt(c) ==
    /\ (pc[c] = "sleep" /\ pc'[c] = "loop") => attempt'[c] = attempt[c] + 1
    /\ (pc[c] = "loop" /\ pc'[c] = "begin") => ~tx[c].open
    /\ (pc[c] = "begin" /\ pc'[c] = "fn")
          => tx'[c] = OpenTx /\ began'[c] = attempt[c] + 1 /\ fnCalls[c] = attempt[c]
    /\ (pc[c] = "fn" /\ pc'[c] # "fn") => fnCalls'[c] = attempt[c] + 1

C8_CommitRetried ==
    [][\A c \in Callers : C8_CommitStep(c) /\ C8_NewAttempt(c)]_vars

C8_Witness ==
    \E c \in Callers :
        /\ pc[c] = "commit"
        /\ attempt[c] = 1
        /\ hist[c] = << << "commit", "40001" >> >>
        /\ fnCalls[c] = 2
        /\ began[c] = 2

\* C9: at the check before an attempt and during a backoff sleep a cancelled
\* context makes the call return ctx.Err(): from either point the caller's next
\* step ends the call with the cancellation error (from the sleep it may, when the
\* timer fires at the same moment, first reach the check, which ends it), and it
\* begins no transaction and invokes no unit of work.
C9_Step(c) ==
    /\ (pc[c] = "loop" /\ attempt[c] <= opts[c] /\ cancelled[c] /\ pc'[c] # "loop")
          => pc'[c] = "done" /\ result'[c] = CtxErr
    /\ (pc[c] = "sleep" /\ cancelled[c] /\ pc'[c] # "sleep")
          => \/ pc'[c] = "done" /\ result'[c] = CtxErr
             \/ pc'[c] = "loop"
    /\ (pc[c] \in {"loop", "sleep"} /\ cancelled[c])
          => began'[c] = began[c] /\ fnCalls'[c] = fnCalls[c] /\ ~tx'[c].open

C9_CancellationObserved ==
    [][\A c \in Callers : C9_Step(c)]_vars

C9_Witness ==
    \E c \in Callers :
        /\ pc[c] = "done"
        /\ result[c] = CtxErr
        /\ cancelAt[c] = << 0, "sleep" >>
        /\ opts[c] = 2
        /\ began[c] = 1
        /\ fnCalls[c] = 1

\* C10 as claimed: whenever the context is cancelled before the call returns an
\* error, that error is the cancellation error.
C10_CancelledAlwaysWins ==
    \A c \in Callers :
        (pc[c] = "done" /\ cancelled[c] /\ result[c] # Nil)
            => /\ ErrorsIs(result[c], "context.Canceled")
               /\ Head(result[c]) \notin ExhaustedMarkers

\* C10 amended: cancellation wins wherever WithRetry looks at the context. A call
\* that returns another error although its context was cancelled was cancelled
\* during its final attempt, after that attempt's check: while it began the
\* transaction, ran the unit of work, rolled back or committed.
C10_CancelledWinsWhenObserved ==
    \A c \in Callers :
        (pc[c] = "done" /\ cancelled[c] /\ result[c] # Nil /\ result[c] # CtxErr)
            => /\ cancelAt[c][1] = attempt[c]
               /\ cancelAt[c][2] \notin {"loop", "sleep"}

C10_Witness ==
    \E c \in Callers :
        /\ pc[c] = "done"
        /\ cancelled[c]
        /\ result[c] = Wrap("max retries exceeded", Base("40P01"))
        /\ cancelAt[c] = << 2, "fn" >>
        /\ attempt[c] = 2

\* C21: a call returns an error with a retries-exhausted marker exactly when its
\* last permitted attempt (attempt = MaxRetries) failed with a retryable error
\* and was rolled back; the returned error is that attempt's error under the
\* marker ("max retries exceeded" for the unit of work, "... on commit" for
\* tx.Commit()), wrapped so that ClassifyError and IsRetryable give for it what
\* they give for the attempt's error.
C21_Exhausted(c) ==
    /\ pc[c] = "done"
    /\ attempt[c] = opts[c]
    /\ Len(hist[c]) = attempt[c] + 1
    /\ TableClass(hist[c][Len(hist[c])][2]) # "Permanent"

C21_ExhaustedWrapsLastError ==
    \A c \in Callers :
        /\ (pc[c] = "done" /\ result[c] # Nil /\ Head(result[c]) \in ExhaustedMarkers)
              => C21_Exhausted(c)
        /\ C21_Exhausted(c)
              => /\ result[c] = Wrap(IF hist[c][Len(hist[c])][1] = "commit"
                                     THEN "max retries exceeded on commit"
                                     ELSE "max retries exceeded", err[c])
                 /\ Innermost(err[c]) = hist[c][Len(hist[c])][2]
                 /\ ClassifyError(result[c]) = ClassifyError(err[c])
                 /\ ClassifyError(result[c]) # ErrorClassPermanent
                 /\ IsRetryable(result[c])

C21_Witness ==
    \E c \in Callers :
        /\ pc[c] = "done"
        /\ opts[c] = 1
        /\ hist[c] = << << "fn", "55P03" >>, << "commit", "40001" >> >>
        /\ lastErr[c] = Wrap("unit of work", Base("55P03"))
        /\ result[c] = Wrap("max retries exceeded on commit", Base("40001"))
        /\ ClassifyError(result[c]) = ErrorClassSerialization

\* C22: in attempt number a (from 0) the backoff is 50ms * 2^a, so the sleep
\* before the k-th retry is backoff_k = 50ms * 2^(k-1) plus a jitter with
\* 0 <= jitter <= backoff_k / 4, after a failure of the unit of work and after
\* one of tx.Commit() alike; a call sleeps only after a retryable error with an
\* attempt left, and a step that ends the call sleeps nothing.
C22_Sleeping(c) ==
    /\ attempt[c] < opts[c]
    /\ IsRetryable(lastErr[c])
    /\ lastErr[c] = err[c]
    /\ Len(hist[c]) = attempt[c] + 1
    /\ hist[c][Len(hist[c])][1] \in {"fn", "commit"}
    /\ sleepDuration[c] - backoff[c] >= 0
    /\ 4 * (sleepDuration[c] - backoff[c]) <= backoff[c]

C22_Delays ==
    \A c \in Callers :
        /\ backoff[c] = BaseBackoff * 2 ^ attempt[c]
        /\ IF pc[c] = "sleep" THEN C22_Sleeping(c) ELSE sleepDuration[c] = 0

C11_Step(c) ==
    /\ (~tx[c].open /\ tx'[c].open)
          => pc[c] \in {"begin", "wt_begin"} /\ began'[c] = began[c] + 1
    /\ began'[c] # began[c] => ~tx[c].open /\ tx'[c].open
    /\ (pc[c] \in {"rollback", "commit"} /\ pc'[c] # pc[c])
          => tx[c].open /\ ~tx'[c].open
    /\ (tx[c].open /\ ~tx'[c].open) => pc[c] \in {"rollback", "commit"}
    /\ pc'[c] \in {"done", "loop", "begin", "sleep", "wt_begin"} => ~tx'[c].open

C11_TransactionClosedOnce ==
    [][\A c \in Callers : C11_Step(c)]_vars

C11_Witness ==
    /\ pc[1] = "done"
    /\ result[1] = CtxErr
    /\ cancelAt[1] = << 1, "sleep" >>
    /\ began[1] = 2
    /\ ~tx[1].open
    /\ pc[2] = "done"
    /\ result[2] = Wrap("rollback failed", Base("ErrProductNotFound"))
    /\ began[2] = 1
    /\ ~tx[2].open

\* what every return of WithTransaction has in common: after an error of the
\* unit of work nothing is committed; after its success the call returns nil
\* exactly when tx.Commit() succeeded, and otherwise the commit's error (as
\* "commit transaction: ...") with nothing committed
C12_Common(c) ==
    /\ (pc[c] = "rollback" /\ pc'[c] = "done")
          => /\ err[c] # Nil
             /\ commits'[c] = commits[c]
             /\ ~tx'[c].open
             /\ << stock, orders, orderItems >>' = << stock, orders, orderItems >>
    /\ (pc[c] = "commit" /\ pc'[c] = "done")
          => /\ err[c] = Nil
             /\ result'[c] = Nil <=> commits'[c] = commits[c] + 1
             /\ result'[c] # Nil
                   => /\ result'[c] = Wrap("commit transaction", err'[c])
                      /\ err'[c] # Nil
                      /\ stock' = stock

\* C12 as claimed: whenever the unit of work returned an error, the caller of
\* WithTransaction receives that error itself.
C12_OriginalErrorReturned ==
    [][\A c \in Callers :
          kind[c] = "reserve" =>
              /\ C12_Common(c)
              /\ (pc[c] = "rollback" /\ pc'[c] = "done") => result'[c] = err[c]]_vars

\* C12 amended: the caller receives the error of the unit of work itself when
\* the rollback succeeded, and that error wrapped as "rollback failed: ...
\* (original error: ...)" when tx.Rollback() returned an error.
C12_OriginalErrorOrRollbackFailure ==
    [][\A c \in Callers :
          kind[c] = "reserve" =>
              /\ C12_Common(c)
              /\ (pc[c] = "rollback" /\ pc'[c] = "done")
                    => \/ result'[c] = err[c]
                       \/ result'[c] = Wrap("rollback failed", err[c])]_vars

C12_Witness ==
    \E c \in Callers :
        /\ kind[c] = "reserve"
        /\ pc[c] = "done"
        /\ result[c] = Wrap("commit transaction", Base("40001"))
        /\ commits[c] = 0
        /\ fnCalls[c] = 1
        /\ stock = [i \in Products |-> StartStock(i)]

(***************************************************************************)
(* Properties of the optimistic update, under SpecOpt.                     *)
(***************************************************************************)
\* C13: a call of UpdateStockOptimistic with a revision that is not the row's
\* stored revision returns ErrOptimisticLockFailed and changes neither the
\* quantity nor the revision; a call with the stored revision (and a new
\* quantity the schema admits, >= 0) returns nil, stores the new quantity and
\* raises the revision by one; a call that reuses the revision of the caller's
\* own successful call returns ErrOptimisticLockFailed.
C13_Step(c) ==
    LET i == req[c].productID
        v == req[c].version IN
    (pc[c] = "op_update" /\ pc'[c] = "done" /\ i \in Products) =>
        /\ version[i] # v
              => /\ result'[c] = Base("ErrOptimisticLockFailed")
                 /\ stock' = stock
                 /\ version' = version
        /\ (version[i] = v /\ req[c].newStock >= 0)
              => /\ result'[c] = Nil
                 /\ stock' = [stock EXCEPT ![i] = req[c].newStock]
                 /\ version' = [version EXCEPT ![i] = v + 1]
        /\ (fnCalls[c] >= 1 /\ result[c] = Nil)
              => result'[c] = Base("ErrOptimisticLockFailed")

C13_StaleRevisionRejected ==
    [][\A c \in Callers : kind[c] = "optimistic" => C13_Step(c)]_vars

C13_Witness ==
    /\ kind[2] = "reserve"
    /\ pc[2] = "wt_begin"
    /\ pc[1] = "done"
    /\ fnCalls[1] = 2
    /\ req[1] = [productID |-> "A", newStock |-> 1, version |-> InitVersion]
    /\ result[1] = Base("ErrOptimisticLockFailed")
    /\ stock["A"] = 1
    /\ version["A"] = InitVersion + 1

\* C14 as claimed: UpdateStockOptimistic on a product id with no row returns
\* ErrProductNotFound, and ErrOptimisticLockFailed is returned only when the
\* row exists with another revision.
C14_MissingRowIsNotFound ==
    \A c \in Callers :
        (kind[c] = "optimistic" /\ pc[c] = "done" /\ fnCalls[c] >= 1) =>
            /\ req[c].productID \notin Products
                  => result[c] = Base("ErrProductNotFound")
            /\ result[c] = Base("ErrOptimisticLockFailed")
                  => /\ req[c].productID \in Products
                     /\ version[req[c].productID] # req[c].version

\* the stored data a policy could mutate, with the writes the caller's
\* transaction has made so far
StoredData(c) == << stock, version, orders, orderItems, tx[c].decr >>

\* what the claim and its amendment share. ReserveStock and ReserveStockNoWait:
\* once the row is locked, a quantity below the requested one makes the call
\* return ErrInsufficientStock, a sufficient one lets the caller go on to the
\* decrement, and the call itself mutates nothing; DecrementStock is reached
\* only after the check passed. GetNextPendingOrder locks an orders row: no
\* quantity is involved and nothing is mutated.
C15_LockingReads(c) ==
    /\ (pc[c] \in {"rs_lock", "rs_nowait"} /\ pc'[c] # pc[c])
          => /\ StoredData(c)' = StoredData(c)
             /\ (Item(c).product \in Products /\ c \in lockHolder'[Item(c).product])
                   => IF stock[Item(c).product] < Item(c).quantity
                      THEN pc'[c] = "rollback" /\ err'[c] = Base("ErrInsufficientStock")
                      ELSE pc'[c] = "rs_decrement"
    /\ pc'[c] = "rs_decrement" => co'[c].stockQuantity >= Item(c).quantity
    /\ (pc[c] = "gn_select" /\ pc'[c] # pc[c])
          => /\ StoredData(c)' = StoredData(c)
             /\ err'[c] \in {Nil, Base("ErrOrderNotFound")}

\* a call of UpdateStockOptimistic that finds its row and revision and asks for
\* more than is there: the new quantity it passes is negative
C15_Overdraw(c) ==
    /\ pc[c] = "op_update" /\ pc'[c] = "done"
    /\ req[c].productID \in Products
    /\ version[req[c].productID] = req[c].version
    /\ req[c].newStock < 0

\* C15 as claimed: each of the four policies checks the quantity against the
\* request before it mutates anything and returns ErrInsufficientStock, with
\* nothing mutated, when the check fails.
C15_AllPoliciesCheckQuantity ==
    [][\A c \in Callers :
          /\ kind[c] \in WTKinds => C15_LockingReads(c)
          /\ (kind[c] = "optimistic" /\ C15_Overdraw(c))
                => /\ result'[c] = Base("ErrInsufficientStock")
                   /\ StoredData(c)' = StoredData(c)]_vars

\* C15 amended: ReserveStock and ReserveStockNoWait check the quantity as
\* claimed; UpdateStockOptimistic makes no check of its own and never returns
\* ErrInsufficientStock: a negative new quantity is refused by the CHECK
\* constraint of the table and returned as a store error, "update stock: ...",
\* with nothing mutated; GetNextPendingOrder involves no quantity.
C15_LockingReadsCheckQuantity ==
    [][\A c \in Callers :
          /\ kind[c] \in WTKinds => C15_LockingReads(c)
          /\ kind[c] = "optimistic"
                => /\ C15_Overdraw(c)
                         => /\ result'[c] = Wrap("update stock", Base("23514"))
                            /\ StoredData(c)' = StoredData(c)
                   /\ result'[c] # Base("ErrInsufficientStock")]_vars

C15_Witness ==
    /\ kind[1] = "optimistic"
    /\ req[1] = [productID |-> "A", newStock |-> -1, version |-> InitVersion]
    /\ pc[1] = "done"
    /\ result[1] = Wrap("update stock", Base("23514"))
    /\ stock["A"] = StartStock("A")
    /\ version["A"] = InitVersion
    /\ kind[2] = "worker"
    /\ pc[2] = "commit"
    /\ co[2].order # << >>
    /\ lockHolder["o1"] = {2}

\* a step of GetNextPendingOrder by c: when every pending order is locked by
\* another transaction it returns ErrOrderNotFound and locks nothing; otherwise
\* it returns a pending order no other transaction had locked, every pending
\* order created earlier being locked by another transaction, and c holds its
\* lock alone
C29_Step(c) ==
    (pc[c] = "gn_select" /\ pc'[c] # "gn_select") =>
        LET free == {o \in orders : o.status = "pending" /\ lockHolder[RowKey(o)] \ {c} = {}} IN
        IF free = {}
        THEN /\ err'[c] = Base("ErrOrderNotFound")
             /\ co'[c].order = << >>
             /\ lockHolder' = lockHolder
        ELSE /\ err'[c] = Nil
             /\ co'[c].order # << >>
             /\ LET o == co'[c].order[1] IN
                   /\ o \in free
                   /\ \A p \in orders :
                         (p.status = "pending" /\ p.id[2] < o.id[2])
                             => lockHolder[RowKey(p)] \ {c} # {}
                   /\ lockHolder' = [lockHolder EXCEPT ![RowKey(o)] = {c}]

\* C29: GetNextPendingOrder never waits; it returns and locks the earliest
\* pending order that no other transaction has locked; no order is held by two
\* open transactions.
C29_SkipLocked ==
    /\ [](\A c \in Callers : pc[c] = "gn_select" => ENABLED GetNextPendingOrder(c))
    /\ [](\A c, d \in Callers :
            (c # d /\ tx[c].open /\ tx[d].open /\ co[c].order # << >>)
                => co[c].order # co[d].order)
    /\ [](\A o \in orders : Cardinality(lockHolder[RowKey(o)]) <= 1)
    /\ [][\A c \in Callers : C29_Step(c)]_vars

C29_Witness ==
    /\ kind[1] = "worker" /\ kind[2] = "worker"
    /\ tx[1].open /\ tx[2].open
    /\ pc[1] = "commit" /\ pc[2] = "commit"
    /\ co[1].order # << >> /\ co[1].order[1].id = << 0, 2 >>
    /\ co[2].order # << >> /\ co[2].order[1].id = << 0, 1 >>
    /\ lockHolder["o1"] = {2} /\ lockHolder["o2"] = {1}

(***************************************************************************)
(* Properties of the writers of the products table, under SpecWriters.     *)
(***************************************************************************)
\* the step commits the transaction of c, which holds the lock of row i alone,
\* and applies its decrements to the committed quantity
C23_CommitUnderLock(c, i) ==
    /\ tx[c].open /\ ~tx'[c].open
    /\ pc[c] = "commit"
    /\ lockHolder[i] = {c}
    /\ stock'[i] = stock[i] - tx[c].decr[i]
    /\ version'[i] = version[i]

\* the step is an optimistic update of row i by c, made with the version the
\* row has, while no transaction holds the row
C23_ConditionedOnVersion(c, i) ==
    /\ kind[c] = "optimistic"
    /\ pc[c] = "op_update" /\ pc'[c] = "done"
    /\ req[c].productID = i
    /\ version[i] = req[c].version
    /\ lockHolder[i] = {}
    /\ stock'[i] = req[c].newStock
    /\ version'[i] = version[i] + 1

Decoded(c) == result[c][1]

\* the same position: the same instant and the same id
SamePosition(p, q) == TimeEqual(p.CreatedAt, q.CreatedAt) /\ p.ID = q.ID

\* what C24 and its amendment say of the positions in S
C24_RoundTripOver(S) ==
    /\ \A c \in Callers :
          (pc[c] = "done" /\ req[c] \in S)
              => err[c] = Nil /\ SamePosition(Decoded(c), req[c])
    /\ \A c, d \in Callers :
          (pc[c] \in {"decode", "done"} /\ pc[d] \in {"decode", "done"}
             /\ req[c] \in S /\ req[d] \in S /\ ~SamePosition(req[c], req[d]))
              => co[c].cursor # co[d].cursor

\* C24 as claimed: DecodeCursor(EncodeCursor(p)) returns p without error for
\* every position p, and two different positions never have the same token.
C24_RoundTripEveryPosition == C24_RoundTripOver(Positions)

\* C24 amended: the round trip returns the position (the same instant, the same
\* id) and different positions have different tokens, for the positions whose
\* timestamp has a year in 0..9999 in its zone; for any other position
\* EncodeCursor returns the empty token, which decodes to the first-page
\* position.
C24_RoundTripRepresentable ==
    /\ C24_RoundTripOver({p \in Positions : Marshalable(p.CreatedAt)})
    /\ \A c \in Callers :
          (pc[c] \in {"decode", "done"} /\ ~Marshalable(req[c].CreatedAt))
              => /\ co[c].cursor = EmptyToken
                 /\ pc[c] = "done" => err[c] = Nil /\ Decoded(c).ID = MaxID

C24_Witness ==
    /\ pc[1] = "done" /\ pc[2] = "done"
    /\ req[1] = [CreatedAt |-> GoTime(2, 1, TRUE), ID |-> MaxID]
    /\ req[2] = [CreatedAt |-> GoTime(2, 0, FALSE), ID |-> 1]
    /\ Decoded(1) = [CreatedAt |-> GoTime(2, 1, FALSE), ID |-> MaxID]
    /\ Decoded(2) = req[2]
    /\ co[1].cursor # co[2].cursor

(***************************************************************************)
(* Properties of ListOrdersCursor, under SpecPage.                         *)
(***************************************************************************)
\* the rows of the user of c in table T
RowsOf(c, T) == {r \in T : r.user = req[c].user}

\* the pages caller c has got
Pages(c) == {hist[c][k] : k \in DOMAIN hist[c]}

\* C25: a page asked with the empty token is read from the position (greatest
\* created_at, greatest id), so it holds the first limit of the user's rows in
\* descending (created_at, id) order, also when rows have a created_at later
\* than the caller's clock at the call.
C25_FirstPageFromTheTop ==
    \A c \in Callers : \A page \in Pages(c) :
        page.cursor = EmptyToken =>
            /\ page.position[2] = MaxID
            /\ \A r \in RowsOf(c, page.table) : PosLess(RowPos(r), page.position)
            /\ page.Items = Fetch(RowsOf(c, page.table), req[c].limit)

\* the rows the query of a page could select: those of the user below the
\* position the page was asked from, in the table as it was then
Below(c, page) == Matching(page.table, req[c].user, page.position)

\* the position a token decodes to
PositionOf(token) == CursorPos(DecodeCursor(token, 1).cursor)

\* what C26 and its amendment share: the rows of the page and has_more
C26_RowsAndHasMore(c, page) ==
    LET m == Cardinality(Below(c, page))
        limit == req[c].limit IN
    /\ page.Items = Fetch(Below(c, page), limit)
    /\ Len(page.Items) = (IF m < limit THEN m ELSE limit)
    /\ \A k \in 1..(Len(page.Items) - 1) :
          PosLess(RowPos(page.Items[k + 1]), RowPos(page.Items[k]))
    /\ page.HasMore <=> m > limit
    /\ ~page.HasMore => page.NextCursor = EmptyToken

\* the next token is that of the last row of the page
C26_TokenOfLastRow(page) ==
    /\ page.Items # << >>
    /\ page.NextCursor # EmptyToken
    /\ PositionOf(page.NextCursor) = RowPos(page.Items[Len(page.Items)])

Given(c) == UNION {{page.Items[k] : k \in DOMAIN page.Items} : page \in Pages(c)}

\* the listing of c is over: its last page said there is no more
Finished(c) == hist[c] # << >> /\ ~hist[c][Len(hist[c])].HasMore

\* row r is still to come in the listing of c: the listing goes on and r is
\* below the position the next page will be asked from
StillToCome(c, r) ==
    /\ ~Finished(c)
    /\ PosLess(RowPos(r), PositionOf(hist[c][Len(hist[c])].NextCursor))

\* C27: in a listing of one user's orders made page after page with the token
\* of the page before (limit >= 1), beside committed inserts: no row is on two
\* pages; each page is asked from the position of the last row of the page
\* before; a row that was there at the first call, below the position the
\* listing started from, has been given or is still to come; a row inserted
\* between two calls below the position of the later one is on no earlier page
\* and has been given or is still to come; a row inserted at or above that
\* position, or after the last call, is on no page.
C27_Listing(c) ==
    LET n == Len(hist[c]) IN
    /\ \A j, k \in 1..n : \A a \in DOMAIN hist[c][j].Items, b \in DOMAIN hist[c][k].Items :
          hist[c][j].Items[a].id = hist[c][k].Items[b].id => j = k /\ a = b
    /\ \A j \in 1..(n - 1) :
          /\ hist[c][j + 1].cursor = hist[c][j].NextCursor
          /\ hist[c][j + 1].position = RowPos(hist[c][j].Items[Len(hist[c][j].Items)])
          /\ hist[c][j].table \subseteq hist[c][j + 1].table
    /\ \A r \in Below(c, hist[c][1]) : r \in Given(c) \/ StillToCome(c, r)
    /\ \A j \in 2..n : \A r \in RowsOf(c, hist[c][j].table \ hist[c][j - 1].table) :
          IF PosLess(RowPos(r), hist[c][j].position)
          THEN /\ r \in Given(c) \/ StillToCome(c, r)
               /\ \A k \in 1..(j - 1) : \A a \in DOMAIN hist[c][k].Items :
                     hist[c][k].Items[a] # r
          ELSE r \notin Given(c)
    /\ \A r \in orders \ hist[c][n].table : r \notin Given(c)

C27_NoRepeatNoSkip ==
    /\ [](\A c \in Callers :
            (kind[c] = "list" /\ req[c].limit >= 1 /\ hist[c] # << >>) => C27_Listing(c))
    /\ [][\A c \in Callers :
            /\ Len(hist'[c]) >= Len(hist[c])
            /\ SubSeq(hist'[c], 1, Len(hist[c])) = hist[c]]_vars

C27_Witness ==
    \E c \in Callers :
        /\ kind[c] = "list" /\ req[c].limit = 1 /\ req[c].cursor = EmptyToken
        /\ Finished(c)
        /\ Len(hist[c]) = 3
        /\ \E r \in RowsOf(c, hist[c][2].table \ hist[c][1].table) :
              /\ PosLess(RowPos(r), hist[c][2].position)
              /\ hist[c][3].Items = << r >>
              /\ r.createdAt < hist[c][2].Items[1].createdAt

\* a finished listing of c from the empty token, with limit >= 1, over a table
\* that did not change while it ran
StaticListing(c) ==
    /\ kind[c] = "list"
    /\ req[c].cursor = EmptyToken
    /\ req[c].limit >= 1
    /\ Finished(c)
    /\ hist[c][1].table = orders

\* every row of the user exactly once, in ceil(n / limit) pages (one page when
\* n = 0), has_more true and a token on every page but the last
EveryRowOnce(c) ==
    LET n == Cardinality(RowsOf(c, orders))
        limit == req[c].limit
        pages == Len(hist[c]) IN
    /\ Given(c) = RowsOf(c, orders)
    /\ \A j, k \in 1..pages : \A a \in DOMAIN hist[c][j].Items, b \in DOMAIN hist[c][k].Items :
          hist[c][j].Items[a] = hist[c][k].Items[b] => j = k /\ a = b
    /\ pages = (IF n = 0 THEN 1 ELSE (n + limit - 1) \div limit)
    /\ \A j \in 1..(pages - 1) :
          /\ hist[c][j].HasMore
          /\ hist[c][j].NextCursor # EmptyToken
          /\ Len(hist[c][j].Items) = limit
    /\ ~hist[c][pages].HasMore
    /\ Len(hist[c][pages].Items) = n - (pages - 1) * limit

\* C28: over a static table of n rows of one user and a page size L >= 1,
\* following the next tokens from the empty token gives every row exactly once,
\* in ceil(n / L) pages, has_more true and a token on every page but the last.
C28_StaticListingComplete ==
    \A c \in Callers : StaticListing(c) => EveryRowOnce(c)

\* the same, for the listings whose first call was made when the caller's
\* clock was not behind the created_at of any row
C28_CompleteWhenNoRowIsLater ==
    \A c \in Callers :
        (StaticListing(c) /\ \A r \in orders : r.createdAt <= hist[c][1].position[1])
            => EveryRowOnce(c)

(***************************************************************************)
(* Properties of CreateOrder's steps and of its item locks (Spec).         *)
(***************************************************************************)
\* the positions of the unit of work of CreateOrder, in the order of its code
CreateOrderSteps == << "co_user", "co_lock", "co_insert_order", "co_insert_item",
                       "co_decrement", "co_fetch" >>

StepIndex(p) == CHOOSE k \in DOMAIN CreateOrderSteps : CreateOrderSteps[k] = p

InCreateOrder(c) == \E k \in DOMAIN CreateOrderSteps : CreateOrderSteps[k] = pc[c]

\* every line of the request of c has its product row locked by c, with a
\* stock_quantity that covers the line
AllLockedAndChecked(c) ==
    \A k \in DOMAIN req[c].items :
        LET i == req[c].items[k].product IN
        /\ i \in Products
        /\ c \in lockHolder[i]
        /\ stock[i] >= req[c].items[k].quantity

\* where an attempt of c stands, from what its transaction has written
C31_State(c) ==
    /\ pc[c] \in {"co_user", "co_lock"}
        => tx[c].order = << >> /\ tx[c].lines = << >> /\ tx[c].decr = NoDecr
    /\ pc[c] = "co_user" => \A i \in Products : c \notin lockHolder[i]
    /\ pc[c] = "co_insert_order"
        => AllLockedAndChecked(c) /\ tx[c].order = << >> /\ tx[c].lines = << >>
    /\ tx[c].order # << >> => AllLockedAndChecked(c)
    /\ tx[c].lines # << >> => tx[c].order # << >>
    /\ tx[c].decr # NoDecr => Len(tx[c].lines) = Len(req[c].items)

\* C31: within every attempt of CreateOrder the position only moves forward
\* through user check, item locks, order insert, line inserts, stock decrements
\* and fetch (or leaves for the rollback); the first lock follows the user
\* check; the order row is written only when every requested product is locked
\* and stock-checked; a line is written only after the order row; and a
\* decrement is written only after every line.
C31_StepsInFixedOrder ==
    [][\A c \in Callers :
        kind[c] = "order" =>
            /\ C31_State(c)'
            /\ (InCreateOrder(c) /\ pc'[c] # pc[c])
                => \/ pc'[c] \in {"rollback", "commit"}
                   \/ InCreateOrder(c)' /\ StepIndex(pc'[c]) = StepIndex(pc[c]) + 1
            /\ (pc'[c] = "co_lock" /\ pc[c] # "co_lock") => pc[c] = "co_user"
            /\ (pc'[c] = "commit" /\ pc[c] # "commit") => pc[c] = "co_fetch"]_vars

C31_Witness ==
    \E c \in Callers :
        /\ kind[c] = "order"
        /\ Len(req[c].items) = 2
        /\ pc[c] = "co_decrement"
        /\ co[c].idx = 2
        /\ Len(tx[c].lines) = 2
        /\ tx[c].decr # NoDecr

(***************************************************************************)
(* Properties of WithRetry's outcome and of its rollback (SpecRetry).      *)
(***************************************************************************)
\* the call of c returned, and: nil exactly when the unit of work ran and one
\* attempt committed; never two commits; no commit when an error is returned
C32_Outcome(c) ==
    /\ commits[c] <= 1
    /\ pc[c] = "done" =>
        /\ result[c] = Nil <=> (fnCalls[c] >= 1 /\ commits[c] = 1)
        /\ result[c] # Nil => commits[c] = 0

\* C32 as claimed: for every MaxRetries, negative values included, the call
\* returns nil if and only if the unit of work was invoked and exactly one
\* attempt committed; at most one attempt commits; a call that returns an error
\* committed nothing.
C32_NilIffCommittedOnce ==
    \A c \in Callers : kind[c] = "generic" => C32_Outcome(c)

\* the same for MaxRetries >= 0
C32_NilIffCommittedOnceFromZero ==
    \A c \in Callers : (kind[c] = "generic" /\ opts[c] >= 0) => C32_Outcome(c)

\* the return that a failed rollback causes: at once, the rollback failure
\* wrapping the error of the unit of work
RollbackFailedReturn(c) ==
    /\ pc'[c] = "done"
    /\ result'[c] = Wrap("rollback failed", err[c])

\* what a step of c out of the rollback may be: the outcome of the retry policy
\* on the error of the unit of work, or the return of the rollback failure;
\* that return begins nothing, sleeps for nothing and leaves the attempt as it
\* is, and its error has the original error in its chain
C33_Step(c) ==
    (pc[c] = "rollback" /\ pc'[c] # "rollback")
        => /\ ~tx'[c].open
           /\ commits'[c] = commits[c]
           /\ \/ RollbackFailedReturn(c)
                    /\ ErrorsIs(result'[c], Innermost(err[c]))
                    /\ << attempt, backoff, began, fnCalls, lastErr >>'
                          = << attempt, backoff, began, fnCalls, lastErr >>
              \/ pc'[c] = "done" /\ result'[c] = err[c]
                    /\ ~IsRetryable(err[c])
              \/ pc'[c] = "done" /\ result'[c] = Wrap("max retries exceeded", err[c])
                    /\ IsRetryable(err[c]) /\ LastAttempt(c)
              \/ pc'[c] = "sleep" /\ IsRetryable(err[c]) /\ ~LastAttempt(c)

\* C33: in WithRetry, when the unit of work failed, a failure of tx.Rollback()
\* ends the call whatever the error of the unit of work and however many
\* attempts remain: the call returns "rollback failed: ..." wrapping the
\* original error, and a call that has returned takes no further step.
C33_FailedRollbackIsFatal ==
    /\ [](\A c \in Callers :
            (kind[c] = "generic" /\ pc[c] = "rollback")
                => ENABLED (FnFailed(c) /\ RollbackFailedReturn(c)))
    /\ [](\A c \in Callers :
            pc[c] = "done" => ~ENABLED (LoopHead(c) \/ BeginTx(c) \/ Fn(c) \/ Sleep(c)))
    /\ [][\A c \in Callers : kind[c] = "generic" => C33_Step(c)]_vars

C33_Witness ==
    \E c \in Callers :
        /\ kind[c] = "generic"
        /\ pc[c] = "done"
        /\ result[c] = Wrap("rollback failed", Base("40P01"))
        /\ opts[c] = MaxRetriesBound
        /\ attempt[c] = 0
        /\ began[c] = 1
        /\ fnCalls[c] = 1

\* a step of c at its locking read: the lock is granted at once, or the
\* statement fails and the locks stay as they are; when another transaction
\* holds the row the failure is 55P03 (lock_not_available)
C34_Step(c) ==
    LET i == Item(c).product IN
    (pc[c] = "co_lock" /\ (pc'[c] # pc[c] \/ co'[c] # co[c]))
        => \/ /\ i \in Products
              /\ lockHolder[i] \ {c} = {}
              /\ lockHolder' = [lockHolder EXCEPT ![i] = @ \cup {c}]
           \/ /\ pc'[c] = "rollback"
              /\ err'[c] # Nil
              /\ lockHolder' = lockHolder
              /\ (i \in Products /\ lockHolder[i] \ {c} # {})
                    => err'[c] = Wrap("lock product", Base("55P03"))

\* C34: a CreateOrder call never waits: at its locking read and at every other
\* position short of its return it has a step to take whatever locks the other
\* callers hold, the locking read is granted at once or fails, and every
\* CreateOrder call returns.
C34_NeverWaitsAndReturns ==
    /\ [](\A c \in Callers : pc[c] = "co_lock" => ENABLED LockProduct(c))
    /\ [](\A c \in Callers :
            (kind[c] = "order" /\ pc[c] # "done") => ENABLED CallerStep(c))
    /\ [][\A c \in Callers : kind[c] = "order" => C34_Step(c)]_vars
    /\ \A c \in Callers : (kind[c] = "order") ~> (pc[c] = "done")

\* two checkouts that ask for the same products in opposite orders, each
\* holding the row the other asks for next
C34_Witness ==
    \E c, d \in Callers :
        /\ kind[c] = "order" /\ kind[d] = "order"
        /\ req[c].items = << Line("A", 1), Line("B", 1) >>
        /\ req[d].items = << Line("B", 1), Line("A", 1) >>
        /\ pc[c] = "co_lock" /\ co[c].idx = 2 /\ lockHolder["A"] = {c}
        /\ pc[d] = "co_lock" /\ co[d].idx = 2 /\ lockHolder["B"] = {d}

(***************************************************************************)
(* Termination of WithRetry (SpecRetryFair).                               *)
(***************************************************************************)
\* the most attempts a call with MaxRetries = m makes
MaxAttempts(m) == IF m >= 0 THEN m + 1 ELSE 0

\* attempt counts the sleeps that ran to their end; a sleep in progress is one more
SleepsBegun(c) == attempt[c] + (IF pc[c] = "sleep" THEN 1 ELSE 0)

C35_Counts(c) ==
    /\ began[c] <= MaxAttempts(opts[c])
    /\ fnCalls[c] <= began[c]
    /\ began[c] <= attempt[c] + 1
    /\ pc[c] # "done" => SleepsBegun(c) <= (IF opts[c] >= 0 THEN opts[c] ELSE 0)

\* a sleep begins only after a failed attempt, and ends in the next attempt or
\* in the return of the call
C35_Step(c) ==
    /\ (pc'[c] = "sleep" /\ pc[c] # "sleep")
          => pc[c] \in {"rollback", "commit"} /\ attempt[c] < opts[c]
    /\ attempt'[c] # attempt[c] => pc[c] = "sleep" /\ attempt'[c] = attempt[c] + 1
    /\ (pc[c] = "sleep" /\ pc'[c] # "sleep") => pc'[c] \in {"loop", "done"}
    /\ pc[c] = "done" => pc'[c] = "done"

\* C35: every call of WithRetry returns; it begins at most MaxRetries + 1
\* transactions, invokes the unit of work at most once per transaction begun,
\* and begins at most MaxRetries sleeps (with a negative MaxRetries: none of
\* any).
C35_Terminates ==
    /\ [](\A c \in Callers : kind[c] = "generic" => C35_Counts(c))
    /\ [][\A c \in Callers : kind[c] = "generic" => C35_Step(c)]_vars
    /\ \A c \in Callers : <>(pc[c] = "done")

\* a call that used all it may: MaxRetries + 1 transactions and invocations,
\* MaxRetries sleeps, and then returned
C35_Witness ==
    \E c \in Callers :
        /\ kind[c] = "generic"
        /\ opts[c] = MaxRetriesBound
        /\ pc[c] = "done"
        /\ began[c] = MaxRetriesBound + 1
        /\ fnCalls[c] = MaxRetriesBound + 1
        /\ attempt[c] = MaxRetriesBound
        /\ ~cancelled[c]

(***************************************************************************)
(* Properties of DecrementStock and of the order lines (Spec).             *)
(***************************************************************************)
\* a call of DecrementStock by c: nil with the stock the transaction sees
\* lowered by the quantity, which it covered, or ErrInsufficientStock with the
\* stock as it was; and no product's stock higher than before
C36_Call(c) ==
    LET i == Item(c).product
        q == Item(c).quantity IN
    (pc[c] = "rs_decrement" /\ pc'[c] # pc[c])
        => /\ \/ /\ err'[c] = Nil
                 /\ i \in Products
                 /\ Visible(c, i) >= q
                 /\ Visible(c, i)' = Visible(c, i) - q
                 /\ \A j \in Products \ {i} : Visible(c, j)' = Visible(c, j)
              \/ /\ err'[c] = Base("ErrInsufficientStock")
                 /\ \A j \in Products : Visible(c, j)' = Visible(c, j)
           /\ \A j \in Products : Visible(c, j)' <= Visible(c, j)

\* the commit of a transaction that called DecrementStock raises no stock
C36_CommitCall(c) ==
    (kind[c] = "reserve" /\ pc[c] = "commit" /\ pc'[c] = "done")
        => \A j \in Products : stock'[j] <= stock[j]

\* C36 as claimed: for every quantity, DecrementStock returns nil and lowers
\* the stock by exactly the quantity (which the stock covered), or returns
\* ErrInsufficientStock and leaves the stock alone; it never raises a stock.
C36_DecrementNeverRaises ==
    [][\A c \in Callers : kind[c] = "reserve" => C36_Call(c) /\ C36_CommitCall(c)]_vars

\* the same for quantities >= 0
C36_DecrementNeverRaisesFromZero ==
    [][\A c \in Callers :
          (kind[c] = "reserve" /\ req[c].items[1].quantity >= 0)
              => C36_Call(c) /\ C36_CommitCall(c)]_vars

\* the request of c has a line with quantity <= 0, or two lines for one product
NonPositiveLine(c) == \E k \in DOMAIN req[c].items : req[c].items[k].quantity <= 0

RepeatedItem(c) ==
    \E k, l \in DOMAIN req[c].items :
        k # l /\ req[c].items[k].product = req[c].items[l].product

\* the lines in L (a sequence of order_items rows) have quantity > 0 and no two
\* of them are lines of one order for one product
WellFormedLines(L) ==
    /\ \A k \in DOMAIN L : L[k].quantity > 0
    /\ \A k, l \in DOMAIN L :
          (k # l /\ L[k].order = L[l].order) => L[k].product # L[l].product

\* C37: every order line, committed or written by an open transaction, has
\* quantity > 0, and an order has at most one line per product; a CreateOrder
\* call whose request has a line with quantity <= 0 or names a product twice
\* never commits, never writes a stock decrement, has no row in orders or
\* order_items, and returns an error.
C37_LinesWellFormed ==
    /\ \A l \in orderItems : l.quantity > 0
    /\ \A l, m \in orderItems :
          (l.order = m.order /\ l.product = m.product) => l = m
    /\ \A c \in Callers :
          kind[c] = "order" =>
              /\ WellFormedLines(tx[c].lines)
              /\ (NonPositiveLine(c) \/ RepeatedItem(c))
                    => /\ commits[c] = 0
                       /\ tx[c].decr = NoDecr
                       /\ \A o \in orders : o.id[1] # c
                       /\ \A l \in orderItems : l.order[1] # c
                       /\ pc[c] = "done" => result[c] # Nil

\* both kinds of request were made and refused by the table's constraints
C37_Witness ==
    \E c, d \in Callers :
        /\ kind[c] = "order" /\ RepeatedItem(c)
        /\ pc[c] = "done"
        /\ result[c] = Wrap("create order item", Base("23505"))
        /\ kind[d] = "order" /\ NonPositiveLine(d)
        /\ pc[d] = "done"
        /\ result[d] = Wrap("create order item", Base("23514"))
        /\ stock = [i \in Products |-> StartStock(i)]

(***************************************************************************)
(* Properties of concurrent optimistic updates (SpecOpt).                  *)
(***************************************************************************)
\* c and d make optimistic updates of one product, both with the version the
\* row had when they read it, and with quantities the table admits
SameRevision(c, d) ==
    /\ c # d
    /\ kind[c] = "optimistic" /\ kind[d] = "optimistic"
    /\ req[c].productID \in Products
    /\ req[c].productID = req[d].productID
    /\ req[c].version = InitVersion /\ req[d].version = InitVersion
    /\ req[c].newStock >= 0 /\ req[d].newStock >= 0

\* a call of c: nil exactly when the row has the version given, and then the
\* version is one higher; and no step lowers a version
C38_Step(c) ==
    LET i == req[c].productID IN
    (kind[c] = "optimistic" /\ pc[c] = "op_update" /\ pc'[c] = "done"
            /\ i \in Products /\ req[c].newStock >= 0)
        => /\ result'[c] = Nil <=> version[i] = req[c].version
           /\ result'[c] = Nil
                 => version'[i] = version[i] + 1 /\ stock'[i] = req[c].newStock
           /\ result'[c] # Nil
                 => /\ result'[c] = Base("ErrOptimisticLockFailed")
                    /\ stock' = stock /\ version' = version

\* C38: of the UpdateStockOptimistic calls made with one revision of one
\* product, exactly one returns nil and the others ErrOptimisticLockFailed,
\* whatever the interleaving and however often a call is made again; each nil
\* raises the version by exactly 1, no version ever decreases, and the quantity
\* stored is the one the successful call wrote.
C38_ExactlyOneWins ==
    /\ [][/\ \A c \in Callers : C38_Step(c)
          /\ \A i \in Products : version'[i] >= version[i]]_vars
    /\ [](\A c, d \in Callers :
            (SameRevision(c, d) /\ pc[c] = "done" /\ pc[d] = "done"
                    /\ fnCalls[c] >= 1 /\ fnCalls[d] >= 1)
                => LET i == req[c].productID IN
                   /\ version[i] = InitVersion + 1
                   /\ stock[i] \in {req[c].newStock, req[d].newStock}
                   /\ ~(result[c] = Nil /\ result[d] = Nil)
                   /\ result[c] = Nil => stock[i] = req[c].newStock
                   /\ \A e \in {c, d} :
                         result[e] \in {Nil, Base("ErrOptimisticLockFailed")}
                   /\ (fnCalls[c] = 1 /\ fnCalls[d] = 1)
                         => (result[c] = Nil) # (result[d] = Nil))

C38_Witness ==
    \E c, d \in Callers :
        /\ SameRevision(c, d)
        /\ req[c].newStock = 0 /\ req[d].newStock = 1
        /\ pc[c] = "done" /\ fnCalls[c] = 1 /\ result[c] = Nil
        /\ pc[d] = "done" /\ fnCalls[d] = 1
        /\ result[d] = Base("ErrOptimisticLockFailed")
        /\ stock[req[c].productID] = 0
        /\ version[req[c].productID] = InitVersion + 1

(***************************************************************************)
(* Properties of a page's token (SpecPage).                                *)
(***************************************************************************)
\* has_more and the next token go together, and the page is no longer than asked
C39_Page(c, page) ==
    /\ page.HasMore <=> page.NextCursor # EmptyToken
    /\ Len(page.Items) <= req[c].limit

\* C39 as claimed: for every limit >= 0 and every token, HasMore is true if and
\* only if NextCursor is not empty, and the page holds at most limit rows.
C39_HasMoreIffToken ==
    \A c \in Callers : \A page \in Pages(c) : C39_Page(c, page)

\* the same for limit >= 1
C39_HasMoreIffTokenFromOne ==
    \A c \in Callers : \A page \in Pages(c) : req[c].limit >= 1 => C39_Page(c, page)

(***************************************************************************)
(* Frame of ReserveStock and ReserveStockNoWait (Spec).                    *)
(***************************************************************************)
\* the locks on rows other than i are as they were
OtherLocksKept(i) == \A j \in LockableRows \ {i} : lockHolder'[j] = lockHolder[j]

\* a call of ReserveStock or ReserveStockNoWait by c: whatever it returns,
\* quantities, versions, orders, order lines and the writes of the transaction
\* are as before; nil adds c as the only holder of the row and nothing else; an
\* error other than ErrInsufficientStock leaves the locks as they were, c not
\* among the holders; ErrInsufficientStock is returned with the row locked
C40_Call(c) ==
    LET i == Item(c).product IN
    (pc[c] \in {"rs_lock", "rs_nowait"} /\ pc'[c] # pc[c])
        => /\ << stock, version, orders, orderItems >>'
                 = << stock, version, orders, orderItems >>
           /\ tx' = tx
           /\ \/ /\ pc'[c] = "rs_decrement"
                 /\ err'[c] = Nil
                 /\ i \in Products
                 /\ lockHolder'[i] = {c}
                 /\ OtherLocksKept(i)
              \/ /\ pc'[c] = "rollback"
                 /\ err'[c] = Base("ErrInsufficientStock")
                 /\ i \in Products
                 /\ stock[i] < Item(c).quantity
                 /\ lockHolder'[i] = {c}
                 /\ OtherLocksKept(i)
              \/ /\ pc'[c] = "rollback"
                 /\ err'[c] = Base("ErrProductNotFound")
                 /\ i \notin Products
                 /\ lockHolder' = lockHolder
                 /\ \A j \in LockableRows : c \notin lockHolder'[j]
              \/ /\ pc'[c] = "rollback"
                 /\ err'[c] = Base("ErrLockTimeout")
                 /\ pc[c] = "rs_nowait"
                 /\ lockHolder' = lockHolder
                 /\ c \notin lockHolder'[i]

\* C40: ReserveStock and ReserveStockNoWait change no stored data on any
\* outcome; a successful call only makes the calling transaction the holder
\* of the row lock; a call that returns ErrProductNotFound or ErrLockTimeout
\* leaves the caller without the lock, and one that returns
\* ErrInsufficientStock returns with the row locked.
C40_ReserveChangesNoData ==
    [][\A c \in Callers : kind[c] = "reserve" => C40_Call(c)]_vars

\* after the other call took all the stock, ReserveStockNoWait found too little
\* and returned ErrInsufficientStock with the row locked and the stock as it was
C40_Witness ==
    \E c, d \in Callers :
        /\ kind[c] = "reserve" /\ req[c].nowait
        /\ pc[c] = "rollback"
        /\ err[c] = Base("ErrInsufficientStock")
        /\ lockHolder["A"] = {c}
        /\ tx[c].decr = NoDecr
        /\ stock["A"] = 0
        /\ version["A"] = InitVersion
        /\ Succeeded(d)
====
